---- MODULE Spec2Model ----
(***************************************************************************)
(* Model of Tool Locker (tlk): manifest, version specs, installer, lock.   *)
(*                                                                         *)
(* Strings are sequences of atoms.  An atom is a one-character string, or  *)
(* an opaque chunk of a URL or a name ("https://h/", "{version}", ".zip")  *)
(* that contains none of the characters the program looks at.              *)
(* Option<T> is a sequence of length 0 (None) or 1 (Some(x)).              *)
(***************************************************************************)
EXTENDS Integers, Sequences, FiniteSets, TLC

\* ------------------------------------------------------------------------
\* String helpers (Rust std::str methods used by the program)
\* ------------------------------------------------------------------------
None == <<>>
Some(x) == <<x>>
IsSome(o) == Len(o) = 1
Unwrap(o) == o[1]

Range(s) == {s[i] : i \in 1..Len(s)}

SubSeqFrom(s, i) == SubSeq(s, i, Len(s))

StartsWith(s, p) == Len(p) <= Len(s) /\ SubSeq(s, 1, Len(p)) = p

EndsWith(s, p) == Len(p) <= Len(s) /\ SubSeq(s, Len(s) - Len(p) + 1, Len(s)) = p

RECURSIVE FindFrom(_, _, _)
FindFrom(s, p, i) ==
    IF i + Len(p) - 1 > Len(s) THEN 0
    ELSE IF SubSeq(s, i, i + Len(p) - 1) = p THEN i
    ELSE FindFrom(s, p, i + 1)

\* str::find: index (1-based) of the first occurrence, 0 for None
Find(s, p) == FindFrom(s, p, 1)

Contains(s, p) == Find(s, p) # 0

RECURSIVE TrimStartMatches(_, _)
TrimStartMatches(s, set) ==
    IF s # <<>> /\ Head(s) \in set THEN TrimStartMatches(Tail(s), set) ELSE s

RECURSIVE TrimEndMatches(_, _)
TrimEndMatches(s, set) ==
    IF s # <<>> /\ s[Len(s)] \in set
    THEN TrimEndMatches(SubSeq(s, 1, Len(s) - 1), set) ELSE s

TrimMatches(s, set) == TrimEndMatches(TrimStartMatches(s, set), set)

Whitespace == {" "}

Trim(s) == TrimMatches(s, Whitespace)

TrimStart(s) == TrimStartMatches(s, Whitespace)

\* str::replace: all non-overlapping matches, left to right; an empty
\* pattern matches at every character boundary
RECURSIVE Replace(_, _, _)
Replace(s, from, to) ==
    IF from = <<>>
    THEN IF s = <<>> THEN to ELSE to \o <<Head(s)>> \o Replace(Tail(s), from, to)
    ELSE IF s = <<>> THEN <<>>
    ELSE IF StartsWith(s, from)
         THEN to \o Replace(SubSeqFrom(s, Len(from) + 1), from, to)
         ELSE <<Head(s)>> \o Replace(Tail(s), from, to)

\* str::split_once: None, or Some(<<before, after>>)
SplitOnce(s, p) ==
    LET i == Find(s, p)
    IN  IF i = 0 THEN None
        ELSE Some(<<SubSeq(s, 1, i - 1), SubSeqFrom(s, i + Len(p))>>)

\* str::split(p) on a non-empty pattern
RECURSIVE Split(_, _)
Split(s, p) ==
    LET i == Find(s, p)
    IN  IF i = 0 THEN <<s>>
        ELSE <<SubSeq(s, 1, i - 1)>> \o Split(SubSeqFrom(s, i + Len(p)), p)

RECURSIVE CountOf(_, _)
CountOf(s, c) ==
    IF s = <<>> THEN 0
    ELSE (IF Head(s) = c THEN 1 ELSE 0) + CountOf(Tail(s), c)

\* ------------------------------------------------------------------------
\* semver crate: Version
\* ------------------------------------------------------------------------
Digits == <<"0", "1", "2", "3", "4", "5", "6", "7", "8", "9">>
DigitSet == Range(Digits)
DigitVal(c) == (CHOOSE i \in 1..10 : Digits[i] = c) - 1

RECURSIVE DigitsPrefixLen(_)
DigitsPrefixLen(s) ==
    IF s # <<>> /\ Head(s) \in DigitSet THEN 1 + DigitsPrefixLen(Tail(s)) ELSE 0

RECURSIVE DigitsToNat(_)
DigitsToNat(s) ==
    IF s = <<>> THEN 0
    ELSE 10 * DigitsToNat(SubSeq(s, 1, Len(s) - 1)) + DigitVal(s[Len(s)])

RECURSIVE NatToStr(_)
NatToStr(n) ==
    IF n < 10 THEN <<Digits[n + 1]>>
    ELSE NatToStr(n \div 10) \o <<Digits[(n % 10) + 1]>>

\* numeric_identifier: [ok, val, rest]; no leading zero
NumericIdentifier(s) ==
    LET k == DigitsPrefixLen(s)
    IN  IF k = 0 \/ (k > 1 /\ s[1] = "0")
        THEN [ok |-> FALSE, val |-> 0, rest |-> s]
        ELSE [ok |-> TRUE, val |-> DigitsToNat(SubSeq(s, 1, k)),
              rest |-> SubSeqFrom(s, k + 1)]

\* characters of a pre-release or build identifier
IdentChars == DigitSet \cup {"a", "b", "c", "e", "n", "r", "t", "v", "y", "-", "."}

RECURSIVE IdentPrefixLen(_)
IdentPrefixLen(s) ==
    IF s # <<>> /\ Head(s) \in IdentChars /\ Head(s) # "+"
    THEN 1 + IdentPrefixLen(Tail(s)) ELSE 0

\* identifier(): [ok, val, rest]; non-empty, no empty dot-separated segment
Identifier(s) ==
    LET k == IdentPrefixLen(s)
        id == SubSeq(s, 1, k)
    IN  IF k = 0 \/ id[1] = "." \/ id[k] = "." \/ Contains(id, <<".", ".">>)
        THEN [ok |-> FALSE, val |-> <<>>, rest |-> s]
        ELSE [ok |-> TRUE, val |-> id, rest |-> SubSeqFrom(s, k + 1)]

BadVersion == [ok |-> FALSE, major |-> 0, minor |-> 0, patch |-> 0,
               pre |-> <<>>, build |-> <<>>]

\* semver::Version::parse
ParseVersion(s) ==
    LET NoId(rest) == [ok |-> TRUE, val |-> <<>>, rest |-> rest]
        Done(ma, mi, pa, pre, bld) ==
            IF ~bld.ok \/ bld.rest # <<>> THEN BadVersion
            ELSE [ok |-> TRUE, major |-> ma.val, minor |-> mi.val, patch |-> pa.val,
                  pre |-> pre.val, build |-> bld.val]
        AfterPre(ma, mi, pa, pre) ==
            IF ~pre.ok THEN BadVersion
            ELSE Done(ma, mi, pa, pre,
                      IF StartsWith(pre.rest, <<"+">>) THEN Identifier(Tail(pre.rest))
                      ELSE NoId(pre.rest))
        AfterPatch(ma, mi, pa) ==
            IF ~pa.ok THEN BadVersion
            ELSE AfterPre(ma, mi, pa,
                          IF StartsWith(pa.rest, <<"-">>) THEN Identifier(Tail(pa.rest))
                          ELSE NoId(pa.rest))
        AfterMinor(ma, mi) ==
            IF ~mi.ok \/ ~StartsWith(mi.rest, <<".">>) THEN BadVersion
            ELSE AfterPatch(ma, mi, NumericIdentifier(Tail(mi.rest)))
        AfterMajor(ma) ==
            IF ~ma.ok \/ ~StartsWith(ma.rest, <<".">>) THEN BadVersion
            ELSE AfterMinor(ma, NumericIdentifier(Tail(ma.rest)))
    IN  AfterMajor(NumericIdentifier(s))

IsVersion(s) == ParseVersion(s).ok

\* Version::to_string
VersionToString(v) ==
    NatToStr(v.major) \o <<".">> \o NatToStr(v.minor) \o <<".">> \o NatToStr(v.patch)
      \o (IF v.pre = <<>> THEN <<>> ELSE <<"-">> \o v.pre)
      \o (IF v.build = <<>> THEN <<>> ELSE <<"+">> \o v.build)

\* order of the atoms inside an identifier (ASCII order of the modelled set)
AtomOrder == <<"+", "-", ".", "0", "1", "2", "3", "4", "5", "6", "7", "8", "9",
               "a", "b", "c", "e", "n", "r", "t", "v", "y">>
AtomRank(c) == CHOOSE i \in 1..Len(AtomOrder) : AtomOrder[i] = c

\* lexicographic comparison of two identifiers: -1, 0, 1
RECURSIVE LexCmp(_, _)
LexCmp(a, b) ==
    IF a = <<>> /\ b = <<>> THEN 0
    ELSE IF a = <<>> THEN -1
    ELSE IF b = <<>> THEN 1
    ELSE IF AtomRank(Head(a)) < AtomRank(Head(b)) THEN -1
    ELSE IF AtomRank(Head(a)) > AtomRank(Head(b)) THEN 1
    ELSE LexCmp(Tail(a), Tail(b))

\* Prerelease::cmp: the empty pre-release is greater than every other
PreCmp(a, b) ==
    IF a = b THEN 0
    ELSE IF a = <<>> THEN 1
    ELSE IF b = <<>> THEN -1
    ELSE LexCmp(a, b)

\* Version::cmp: -1, 0, 1
VersionCmp(a, b) ==
    IF a.major # b.major THEN (IF a.major < b.major THEN -1 ELSE 1)
    ELSE IF a.minor # b.minor THEN (IF a.minor < b.minor THEN -1 ELSE 1)
    ELSE IF a.patch # b.patch THEN (IF a.patch < b.patch THEN -1 ELSE 1)
    ELSE IF PreCmp(a.pre, b.pre) # 0 THEN PreCmp(a.pre, b.pre)
    ELSE LexCmp(a.build, b.build)

\* ------------------------------------------------------------------------
\* semver crate: VersionReq (comparators are separated by commas)
\* ------------------------------------------------------------------------
WildcardChars == {"*", "x", "X"}

\* op(): the operator prefix of a comparator; no prefix is Caret by default
ParseOp(s) ==
    IF StartsWith(s, <<">", "=">>) THEN [op |-> "GreaterEq", dflt |-> FALSE, rest |-> SubSeqFrom(s, 3)]
    ELSE IF StartsWith(s, <<"<", "=">>) THEN [op |-> "LessEq", dflt |-> FALSE, rest |-> SubSeqFrom(s, 3)]
    ELSE IF StartsWith(s, <<"=">>) THEN [op |-> "Exact", dflt |-> FALSE, rest |-> Tail(s)]
    ELSE IF StartsWith(s, <<">">>) THEN [op |-> "Greater", dflt |-> FALSE, rest |-> Tail(s)]
    ELSE IF StartsWith(s, <<"<">>) THEN [op |-> "Less", dflt |-> FALSE, rest |-> Tail(s)]
    ELSE IF StartsWith(s, <<"~">>) THEN [op |-> "Tilde", dflt |-> FALSE, rest |-> Tail(s)]
    ELSE IF StartsWith(s, <<"^">>) THEN [op |-> "Caret", dflt |-> FALSE, rest |-> Tail(s)]
    ELSE [op |-> "Caret", dflt |-> TRUE, rest |-> s]

BadComparator == [ok |-> FALSE, op |-> "Caret", major |-> 0, minor |-> None,
                  patch |-> None, pre |-> <<>>, rest |-> <<>>]

\* one ".N" / ".x" part of a comparator: [ok, val (Option), wild, rest]
ParsePart(s) ==
    IF ~StartsWith(s, <<".">>) THEN [ok |-> TRUE, val |-> None, wild |-> FALSE, rest |-> s]
    ELSE IF Len(s) >= 2 /\ s[2] \in WildcardChars
         THEN [ok |-> TRUE, val |-> None, wild |-> TRUE, rest |-> SubSeqFrom(s, 3)]
    ELSE LET n == NumericIdentifier(Tail(s))
         IN  [ok |-> n.ok, val |-> Some(n.val), wild |-> FALSE, rest |-> n.rest]

\* comparator(): [ok, op, major, minor, patch, pre, rest]
ParseComparator(s) ==
    LET NoId(rest) == [ok |-> TRUE, val |-> <<>>, rest |-> rest]
        Done(o, ma, mi, pa, pre, bld) ==
            IF ~bld.ok THEN BadComparator
            ELSE [ok |-> TRUE,
                  op |-> IF o.dflt /\ (mi.wild \/ pa.wild) THEN "Wildcard" ELSE o.op,
                  major |-> ma.val, minor |-> mi.val, patch |-> pa.val,
                  pre |-> pre.val, rest |-> TrimStart(bld.rest)]
        AfterPre(o, ma, mi, pa, pre) ==
            IF ~pre.ok THEN BadComparator
            ELSE Done(o, ma, mi, pa, pre,
                      IF IsSome(pa.val) /\ StartsWith(pre.rest, <<"+">>)
                      THEN Identifier(Tail(pre.rest)) ELSE NoId(pre.rest))
        AfterPatch(o, ma, mi, pa) ==
            IF ~pa.ok \/ (mi.wild /\ IsSome(pa.val)) THEN BadComparator
            ELSE AfterPre(o, ma, mi, pa,
                          IF IsSome(pa.val) /\ StartsWith(pa.rest, <<"-">>)
                          THEN Identifier(Tail(pa.rest)) ELSE NoId(pa.rest))
        AfterMinor(o, ma, mi) ==
            IF ~mi.ok THEN BadComparator ELSE AfterPatch(o, ma, mi, ParsePart(mi.rest))
        AfterMajor(o, ma) ==
            IF ~ma.ok THEN BadComparator ELSE AfterMinor(o, ma, ParsePart(ma.rest))
        AfterOp(o) == AfterMajor(o, NumericIdentifier(TrimStart(o.rest)))
    IN  AfterOp(ParseOp(s))

BadReq == [ok |-> FALSE, comparators |-> <<>>]

\* version_req(): comparators separated by ","
RECURSIVE ParseComparators(_)
ParseComparators(s) ==
    LET Join(c, more) ==
            IF ~more.ok THEN BadReq
            ELSE [ok |-> TRUE, comparators |-> <<c>> \o more.comparators]
        After(c) ==
            IF ~c.ok THEN BadReq
            ELSE IF c.rest = <<>> THEN [ok |-> TRUE, comparators |-> <<c>>]
            ELSE IF ~StartsWith(c.rest, <<",">>) THEN BadReq
            ELSE Join(c, ParseComparators(TrimStart(Tail(c.rest))))
    IN  After(ParseComparator(s))

\* semver::VersionReq::parse
ParseVersionReq(s) ==
    LET t == TrimStart(s)
    IN  IF t # <<>> /\ Head(t) \in WildcardChars
        THEN IF TrimStart(Tail(t)) = <<>> THEN [ok |-> TRUE, comparators |-> <<>>]
             ELSE BadReq
        ELSE ParseComparators(t)

MatchesExact(c, v) ==
    /\ v.major = c.major
    /\ IsSome(c.minor) => v.minor = Unwrap(c.minor)
    /\ IsSome(c.patch) => v.patch = Unwrap(c.patch)
    /\ v.pre = c.pre

MatchesGreater(c, v) ==
    IF v.major # c.major THEN v.major > c.major
    ELSE IF ~IsSome(c.minor) THEN FALSE
    ELSE IF v.minor # Unwrap(c.minor) THEN v.minor > Unwrap(c.minor)
    ELSE IF ~IsSome(c.patch) THEN FALSE
    ELSE IF v.patch # Unwrap(c.patch) THEN v.patch > Unwrap(c.patch)
    ELSE PreCmp(v.pre, c.pre) > 0

MatchesLess(c, v) ==
    IF v.major # c.major THEN v.major < c.major
    ELSE IF ~IsSome(c.minor) THEN FALSE
    ELSE IF v.minor # Unwrap(c.minor) THEN v.minor < Unwrap(c.minor)
    ELSE IF ~IsSome(c.patch) THEN FALSE
    ELSE IF v.patch # Unwrap(c.patch) THEN v.patch < Unwrap(c.patch)
    ELSE PreCmp(v.pre, c.pre) < 0

MatchesTilde(c, v) ==
    IF v.major # c.major THEN FALSE
    ELSE IF IsSome(c.minor) /\ v.minor # Unwrap(c.minor) THEN FALSE
    ELSE IF IsSome(c.patch) /\ v.patch # Unwrap(c.patch) THEN v.patch > Unwrap(c.patch)
    ELSE PreCmp(v.pre, c.pre) >= 0

MatchesCaret(c, v) ==
    IF v.major # c.major THEN FALSE
    ELSE IF ~IsSome(c.minor) THEN TRUE
    ELSE IF ~IsSome(c.patch)
         THEN IF c.major > 0 THEN v.minor >= Unwrap(c.minor)
              ELSE v.minor = Unwrap(c.minor)
    ELSE IF c.major > 0
         THEN IF v.minor # Unwrap(c.minor) THEN v.minor > Unwrap(c.minor)
              ELSE IF v.patch # Unwrap(c.patch) THEN v.patch > Unwrap(c.patch)
              ELSE PreCmp(v.pre, c.pre) >= 0
    ELSE IF Unwrap(c.minor) > 0
         THEN IF v.minor # Unwrap(c.minor) THEN FALSE
              ELSE IF v.patch # Unwrap(c.patch) THEN v.patch > Unwrap(c.patch)
              ELSE PreCmp(v.pre, c.pre) >= 0
    ELSE IF v.minor # Unwrap(c.minor) \/ v.patch # Unwrap(c.patch) THEN FALSE
    ELSE PreCmp(v.pre, c.pre) >= 0

MatchesImpl(c, v) ==
    CASE c.op \in {"Exact", "Wildcard"} -> MatchesExact(c, v)
      [] c.op = "Greater"   -> MatchesGreater(c, v)
      [] c.op = "GreaterEq" -> MatchesExact(c, v) \/ MatchesGreater(c, v)
      [] c.op = "Less"      -> MatchesLess(c, v)
      [] c.op = "LessEq"    -> MatchesExact(c, v) \/ MatchesLess(c, v)
      [] c.op = "Tilde"     -> MatchesTilde(c, v)
      [] c.op = "Caret"     -> MatchesCaret(c, v)

PreIsCompatible(c, v) ==
    /\ c.major = v.major
    /\ c.minor = Some(v.minor)
    /\ c.patch = Some(v.patch)
    /\ c.pre # <<>>

\* VersionReq::matches
ReqMatches(req, v) ==
    /\ \A i \in 1..Len(req.comparators) : MatchesImpl(req.comparators[i], v)
    /\ \/ v.pre = <<>>
       \/ \E i \in 1..Len(req.comparators) : PreIsCompatible(req.comparators[i], v)

\* ------------------------------------------------------------------------
\* Range helpers of the installer (src/src/installer.rs)
\* ------------------------------------------------------------------------
RangeTokens == {<<"^">>, <<"~">>, <<"*">>, <<"x">>, <<"X">>, <<"|", "|">>, <<"-">>,
                <<">">>, <<"<">>, <<"=">>, <<" ">>}

is_range(spec) ==
    IF IsVersion(Trim(spec)) THEN FALSE
    ELSE \E t \in RangeTokens : Contains(Trim(spec), t)

RangeOps == {"^", "~", ">", "=", "<"}

\* the part of normalize_version shared by the installer's and the ops' copy:
\* first space-separated token, cut at "||", leading range operators removed
StripRangePrefix(spec) ==
    LET FirstToken(s, so) == IF IsSome(so) THEN Unwrap(so)[1] ELSE s
        CutAt(s, pos) == IF pos # 0 THEN Trim(SubSeq(s, 1, pos - 1)) ELSE s
        BeforeOr(s) == CutAt(s, Find(s, <<"|", "|">>))
        First(s) == FirstToken(s, SplitOnce(s, <<" ">>))
    IN  Trim(TrimStartMatches(TrimStartMatches(BeforeOr(First(Trim(spec))), RangeOps),
                              {"="}))

\* installer::normalize_version: [exact, requested]
normalize_version(spec) ==
    LET Pick(cleaned) ==
            IF IsVersion(cleaned) THEN [exact |-> cleaned, requested |-> Some(spec)]
            ELSE [exact |-> spec, requested |-> None]
    IN  IF IsVersion(Trim(spec)) THEN [exact |-> Trim(spec), requested |-> None]
        ELSE Pick(TrimMatches(StripRangePrefix(spec), {",", ")"}))

\* ops::normalize_version (no trailing "," / ")" cut)
ops_normalize_version(spec) ==
    LET Pick(trimmed) ==
            IF IsVersion(trimmed) THEN [exact |-> trimmed, requested |-> Some(spec)]
            ELSE [exact |-> spec, requested |-> None]
    IN  IF IsVersion(Trim(spec)) THEN [exact |-> Trim(spec), requested |-> None]
        ELSE Pick(StripRangePrefix(spec))

\* "A - B" -> ">=A <=B" when both sides are non-empty; None otherwise
HyphenRewrite(r) ==
    LET Join(a, b) ==
            IF a # <<>> /\ b # <<>>
            THEN Some(<<">", "=">> \o a \o <<" ", "<", "=">> \o b)
            ELSE None
        Halves(ab) == Join(Trim(ab[1]), Trim(ab[2]))
    IN  IF Contains(r, <<"-">>) /\ Contains(r, <<" ">>)
        THEN Halves(Unwrap(SplitOnce(r, <<"-">>)))
        ELSE None

range_satisfies(range, version) ==
    LET Decide(v, req) == v.ok /\ req.ok /\ ReqMatches(req, v)
        Rewritten(r, hy) == IF IsSome(hy) THEN Unwrap(hy) ELSE r
        Norm(r) == Rewritten(r, HyphenRewrite(r))
    IN  Decide(ParseVersion(Trim(version)),
               ParseVersionReq(Norm(Replace(Trim(range), <<"*">>, <<"x">>))))

\* ------------------------------------------------------------------------
\* Version resolver (src/cli/src/command_handlers/install.rs)
\* ------------------------------------------------------------------------
Ok(x) == [ok |-> TRUE, val |-> x]
Err(e) == [ok |-> FALSE, val |-> e]

\* index of the first element of all that satisfies P, 0 when none does
FirstIndex(all, P(_)) ==
    IF \E i \in 1..Len(all) : P(all[i])
    THEN CHOOSE i \in 1..Len(all) : P(all[i]) /\ \A j \in 1..(i - 1) : ~P(all[j])
    ELSE 0

\* the ".x" completion of a partial spec
NormalizePartial(spec) ==
    LET n == Replace(spec, <<"*">>, <<"x">>)
    IN  IF IsVersion(n) THEN n
        ELSE IF CountOf(n, ".") = 1 /\ ~Contains(n, <<"x">>)
                /\ ~Contains(n, <<"^">>) /\ ~Contains(n, <<"~">>)
             THEN n \o <<".", "x">>
        ELSE IF CountOf(n, ".") = 0 /\ Range(n) \subseteq DigitSet
             THEN n \o <<".", "x">>
        ELSE n

RECURSIVE resolve_version(_, _)
RECURSIVE BestOfClauses(_, _, _)
\* the loop over the clauses of "A || B": the greatest successful resolution
BestOfClauses(all, clauses, best) ==
    LET Better(ver) ==
            IF ver.ok /\ (~IsSome(best) \/ VersionCmp(ver, Unwrap(best)) > 0)
            THEN Some(ver) ELSE best
        Parsed(r) == IF r.ok THEN ParseVersion(r.val) ELSE BadVersion
        Try(clause) ==
            Better(Parsed(IF clause = <<>> THEN Err("empty")
                          ELSE resolve_version(all, clause)))
    IN  IF clauses = <<>> THEN best
        ELSE BestOfClauses(all, Tail(clauses), Try(Trim(Head(clauses))))

\* resolve_version, given the list fetch_all_versions returned
resolve_version(all, spec) ==
    LET Pick(i) ==
            IF i # 0 THEN Ok(VersionToString(all[i]))
            ELSE Err("cannot resolve version spec")
        HasPrefix(v) == StartsWith(VersionToString(v), spec)
        ByPrefix(i) == IF i # 0 THEN i ELSE FirstIndex(all, HasPrefix)
        ByReq(req) ==
            LET IsMatch(v) == ReqMatches(req, v)
            IN  IF req.ok THEN FirstIndex(all, IsMatch) ELSE 0
        AfterHyphen(hr) ==
            IF hr.ok THEN hr
            ELSE Pick(ByPrefix(ByReq(ParseVersionReq(NormalizePartial(spec)))))
        Hyphen(hy) ==
            AfterHyphen(IF IsSome(hy) THEN resolve_version(all, Unwrap(hy))
                        ELSE Err("no hyphen range"))
        AfterOr(best) ==
            IF IsSome(best) THEN Ok(VersionToString(Unwrap(best)))
            ELSE Hyphen(HyphenRewrite(spec))
    IN  IF IsVersion(spec) THEN Ok(spec)
        ELSE AfterOr(IF Contains(spec, <<"|", "|">>)
                     THEN BestOfClauses(all, Split(spec, <<"|", "|">>), None)
                     ELSE None)

\* ------------------------------------------------------------------------
\* Host and platform (known_tools.rs detect_*, platform/unix.rs, windows.rs)
\* ------------------------------------------------------------------------
\* std::env::consts::OS / ARCH of the build
Hosts == {[os |-> "linux", arch |-> "x86_64"],
          [os |-> "macos", arch |-> "aarch64"],
          [os |-> "windows", arch |-> "x86_64"]}

detect_os(h) == IF h.os = "macos" THEN "darwin" ELSE h.os

detect_arch(h) ==
    IF h.arch = "x86_64" THEN "amd64"
    ELSE IF h.arch = "aarch64" THEN "arm64"
    ELSE h.arch

placeholder_os(h) == detect_os(h)
placeholder_arch(h) == detect_arch(h)

\* cfg(windows) selects the Windows variant of PlatformOps, cfg(unix) the Unix one
IsWindows(h) == h.os = "windows"

final_binary_name(h, base) ==
    IF IsWindows(h)
    THEN IF EndsWith(base, <<".exe">>) THEN base ELSE base \o <<".exe">>
    ELSE base

candidate_archive_entry_names(h, base) ==
    IF IsWindows(h)
    THEN IF EndsWith(base, <<".exe">>) THEN <<base>> ELSE <<base, base \o <<".exe">>>>
    ELSE <<base,
           <<h.os, "-", detect_arch(h), "/">> \o base,
           <<h.os, "_", detect_arch(h), "/">> \o base,
           <<"bin", "/">> \o base>>

adjust_direct_url(h, url) ==
    IF IsWindows(h)
    THEN IF EndsWith(url, <<".exe">>) \/ EndsWith(url, <<".zip">>)
            \/ EndsWith(url, <<".tar.gz">>)
         THEN url ELSE url \o <<".exe">>
    ELSE url

\* ------------------------------------------------------------------------
\* Tools and the known-tool catalog (config.rs, known_tools.rs)
\* ------------------------------------------------------------------------
NoArch == [amd64 |-> None, arm64 |-> None, x86_64 |-> None, aarch64 |-> None]

MkTool(name, version, kind, source, sha256, binary) ==
    [name |-> name, version |-> version, kind |-> kind, source |-> source,
     sha256 |-> sha256, binary |-> binary, install_dir |-> None,
     per_os |-> None, per_os_arch |-> None]

TerraformTpl == <<"https://releases.hashicorp.com/terraform/", "{version}",
                  "/terraform_", "{version}", "_", "{os}", "_", "{arch}", ".zip">>
KubectlTpl == <<"https://dl.k8s.io/release/v", "{version}", "/bin/", "{os}", "/",
                "{arch}", "/kubectl">>
HelmTpl == <<"https://get.helm.sh/helm-v", "{version}", "-", "{os}", "-", "{arch}",
             ".tar.gz">>

map_arch_for_node(a) == IF a = "amd64" THEN "x64" ELSE a

node_source(h, version) ==
    IF detect_os(h) = "windows"
    THEN <<"https://nodejs.org/dist/v">> \o version \o <<"/node-v">> \o version
           \o <<"-win-", map_arch_for_node(detect_arch(h)), ".zip">>
    ELSE <<"https://nodejs.org/dist/v">> \o version \o <<"/node-v">> \o version
           \o <<"-", detect_os(h), "-", map_arch_for_node(detect_arch(h)), ".tar.gz">>

\* the catalog entries the model carries: name -> (kind, source spec, binary_rel)
KnownNames == {<<"terraform">>, <<"kubectl">>, <<"helm">>, <<"node">>}

known_tools_map(name) ==
    CASE name = <<"terraform">> ->
           [kind |-> "Archive", custom |-> FALSE, tpl |-> TerraformTpl,
            binary_rel |-> Some(<<"terraform">>)]
      [] name = <<"kubectl">> ->
           [kind |-> "Direct", custom |-> FALSE, tpl |-> KubectlTpl, binary_rel |-> None]
      [] name = <<"helm">> ->
           [kind |-> "Archive", custom |-> FALSE, tpl |-> HelmTpl, binary_rel |-> None]
      [] name = <<"node">> ->
           [kind |-> "Archive", custom |-> TRUE, tpl |-> <<>>,
            binary_rel |-> Some(<<"bin", "/", "node">>)]

\* KnownToolDef::build
KnownToolBuild(h, name, version) ==
    LET def   == known_tools_map(name)
        clean == TrimStartMatches(version, {"v"})
    IN  MkTool(name, clean, def.kind,
               IF def.custom THEN node_source(h, clean) ELSE def.tpl,
               None, def.binary_rel)

build_known_tool(h, name, version) ==
    IF name \in KnownNames THEN Ok(KnownToolBuild(h, name, version))
    ELSE Err("unknown known tool")

\* the per-OS entry of a per_os / per_os_arch table
PerOsEntry(per, os) ==
    CASE os = "linux" -> per.linux
      [] os \in {"darwin", "macos"} -> per.mac
      [] os = "windows" -> per.windows
      [] OTHER -> None

OrElse(a, b) == IF IsSome(a) THEN a ELSE b

\* a lookup in which the per-OS template comes before the per-OS-and-arch one
effective_source_template_os_first(tool, os, arch) ==
    LET First(osTpl) == IF IsSome(osTpl) THEN Unwrap(osTpl) ELSE tool.source
    IN  First(IF IsSome(tool.per_os) THEN PerOsEntry(Unwrap(tool.per_os), os) ELSE None)

\* Tool::effective_source_template
effective_source_template(tool, os, arch) ==
    LET osEntry == IF IsSome(tool.per_os_arch)
                   THEN PerOsEntry(Unwrap(tool.per_os_arch), os) ELSE None
        archTpl == IF ~IsSome(osEntry) THEN None
                   ELSE LET as == Unwrap(osEntry)
                        IN  CASE arch \in {"amd64", "x86_64"} -> OrElse(as.amd64, as.x86_64)
                              [] arch \in {"arm64", "aarch64"} -> OrElse(as.arm64, as.aarch64)
                              [] OTHER -> None
        osTpl   == IF IsSome(tool.per_os) THEN PerOsEntry(Unwrap(tool.per_os), os) ELSE None
    IN  IF IsSome(archTpl) THEN Unwrap(archTpl)
        ELSE IF IsSome(osTpl) THEN Unwrap(osTpl)
        ELSE tool.source

\* the three placeholder substitutions, in the order of the code
Substitute(template, version, os, arch) ==
    Replace(Replace(Replace(template, <<"{version}">>, version),
                    <<"{os}">>, <<os>>), <<"{arch}">>, <<arch>>)

\* installer::render_source
render_source(h, tool) ==
    adjust_direct_url(h,
        Substitute(effective_source_template(tool, placeholder_os(h), placeholder_arch(h)),
                   tool.version, placeholder_os(h), placeholder_arch(h)))

target_bin_filename(h, tool) == final_binary_name(h, tool.name)

\* ------------------------------------------------------------------------
\* Lock file (lock.rs)
\* ------------------------------------------------------------------------
LockOss == <<"linux", "darwin", "windows">>
LockArchs == <<"amd64", "arm64">>
PlatformKeys == {<<o, "-", a>> : o \in Range(LockOss), a \in Range(LockArchs)}

\* a writer that lists the host's URL alone, whatever the template holds
to_locked_entry_host_only(h, exact, requested, rendered, template, sha256, digest) ==
    [version |-> exact,
     requested_version |-> requested,
     source |-> rendered,
     source_template |-> Some(template),
     platform |-> Some(<<h.os, "-", h.arch>>),
     sources |-> Some([k \in {<<placeholder_os(h), "-", placeholder_arch(h)>>} |-> rendered]),
     sha256 |-> sha256,
     digest |-> digest]

to_locked_entry(h, exact, requested, rendered, template, sha256, digest) ==
    LET sources == IF Contains(template, <<"{os}">>) /\ Contains(template, <<"{arch}">>)
                   THEN Some([k \in PlatformKeys |->
                                Substitute(template, exact, k[1], k[3])])
                   ELSE None
    IN  [version |-> exact,
         requested_version |-> requested,
         source |-> rendered,
         source_template |-> Some(template),
         platform |-> Some(<<h.os, "-", h.arch>>),
         sources |-> sources,
         sha256 |-> sha256,
         digest |-> digest]

\* env!("CARGO_PKG_VERSION") of the running binary
PkgVersion == "0.2.0"

\* LockFile::new at time now
LockFileNew(map, now) ==
    [generated |-> now, tlk_version |-> Some(PkgVersion), schema |-> Some(3),
     tools |-> map]

\* what LockFile::save serialises
SaveImage(lf) ==
    [fmt |-> "v3", generated |-> lf.generated, tlk_version |-> Some(PkgVersion),
     schema |-> IF IsSome(lf.schema) THEN lf.schema ELSE Some(3),
     tools |-> lf.tools]

\* LockFile::load of the file content (None: no file).  A v3 file loads as it
\* is; a legacy array-of-tool file is rekeyed by name (a later entry of the same
\* name replaces an earlier one) into LockFile::new; anything else is an error.
RECURSIVE RekeyLegacy(_, _)
RekeyLegacy(items, map) ==
    IF items = <<>> THEN map
    ELSE LET t == Head(items)
             e == [version |-> t.version, requested_version |-> None,
                   source |-> t.source, source_template |-> t.source_template,
                   platform |-> t.platform, sources |-> t.sources,
                   sha256 |-> t.sha256, digest |-> t.digest]
         IN  RekeyLegacy(Tail(items),
                 [n \in DOMAIN map \cup {t.name} |-> IF n = t.name THEN e ELSE map[n]])

EmptyMap == [n \in {} |-> 0]

LockFileLoad(file, now) ==
    IF ~IsSome(file) THEN Ok(None)
    ELSE LET img == Unwrap(file)
         IN  CASE img.fmt = "v3" ->
                    Ok(Some([generated |-> img.generated, tlk_version |-> img.tlk_version,
                             schema |-> img.schema, tools |-> img.tools]))
               [] img.fmt = "legacy" ->
                    Ok(Some(LockFileNew(RekeyLegacy(img.tools, EmptyMap), now)))
               [] OTHER -> Err("unable to parse lock file (unsupported schema)")

\* the content of the lock path after File::create and before write_all ends
TornImage == [fmt |-> "torn", generated |-> 0, tlk_version |-> None, schema |-> None,
              tools |-> EmptyMap]

\* ------------------------------------------------------------------------
\* Install directory (installer.rs install_dir, find_installed_version, ...)
\* ------------------------------------------------------------------------
ProjectBinDir == "{project_root}/.tlk/bin"

\* installer::install_dir: the tool's own install_dir field is not read
install_dir(tool) == ProjectBinDir

BinPath(h, tool) == <<install_dir(tool), target_bin_filename(h, tool)>>

FileAt(fs, path) == IF path \in DOMAIN fs THEN Some(fs[path]) ELSE None

PutFile(fs, path, file) ==
    [x \in DOMAIN fs \cup {path} |-> IF x = path THEN file ELSE fs[x]]

\* a file right after File::create
EmptyFile == [bytes |-> <<>>, says |-> <<>>]

Sha256(bytes) == <<"sha256">> \o bytes

\* extract_version_from_binary: run the file with --version, first semver token
RECURSIVE FirstVersionToken(_)
FirstVersionToken(tokens) ==
    IF tokens = <<>> THEN <<"unknown">>
    ELSE LET v == ParseVersion(TrimStartMatches(Head(tokens), {"v"}))
         IN  IF v.ok THEN VersionToString(v) ELSE FirstVersionToken(Tail(tokens))

extract_version_from_binary(file) ==
    IF file.bytes = <<>> THEN Err("exec failed")
    ELSE Ok(FirstVersionToken(file.says))

find_installed_version(h, fs, tool) ==
    LET Look(bin, legacy) ==
            IF IsSome(bin) \/ (IsWindows(h) /\ IsSome(legacy))
            THEN extract_version_from_binary(Unwrap(IF IsSome(bin) THEN bin ELSE legacy))
            ELSE Err("not installed")
    IN  Look(FileAt(fs, <<install_dir(tool), target_bin_filename(h, tool)>>),
             FileAt(fs, <<install_dir(tool), tool.name>>))

compute_installed_digest(h, fs, tool) ==
    LET bin == FileAt(fs, BinPath(h, tool))
    IN  IF IsSome(bin) THEN Some(Sha256(Unwrap(bin).bytes)) ELSE None

\* ------------------------------------------------------------------------
\* Lock writer and verifier (installer.rs write_lockfile, verify_lockfile;
\* ops.rs write_single_lock)
\* ------------------------------------------------------------------------
\* the entry write_lockfile builds for one tool
LockEntryOf(h, fs, t) ==
    LET Entry(nv) ==
            to_locked_entry(h, nv.exact, nv.requested,
                Replace(render_source(h, t), t.version, nv.exact),
                effective_source_template(t, placeholder_os(h), placeholder_arch(h)),
                t.sha256, compute_installed_digest(h, fs, t))
    IN  Entry(normalize_version(t.version))

\* the entry write_single_lock builds (its own copy of normalize_version)
SingleLockEntryOf(h, fs, t) ==
    LET Entry(nv) ==
            to_locked_entry(h, nv.exact, nv.requested,
                Replace(render_source(h, t), t.version, nv.exact),
                effective_source_template(t, placeholder_os(h), placeholder_arch(h)),
                t.sha256, compute_installed_digest(h, fs, t))
    IN  Entry(ops_normalize_version(t.version))

\* an update that starts from an empty map instead of the loaded one
write_single_lock_fresh(h, fs, map, tool) ==
    [n \in {tool.name} |-> SingleLockEntryOf(h, fs, tool)]

\* write_single_lock: the map it saves, given the tools of the lock it loaded
write_single_lock(h, fs, map, tool) ==
    [n \in DOMAIN map \cup {tool.name} |->
        IF n = tool.name THEN SingleLockEntryOf(h, fs, tool) ELSE map[n]]

\* the map write_lockfile fills, tool by tool (map.insert replaces)
RECURSIVE LockMapOf(_, _, _, _)
LockMapOf(h, fs, tools, map) ==
    LET Insert(name, e) ==
            [n \in DOMAIN map \cup {name} |-> IF n = name THEN e ELSE map[n]]
    IN  IF tools = <<>> THEN map
        ELSE LockMapOf(h, fs, Tail(tools),
                       Insert(Head(tools).name, LockEntryOf(h, fs, Head(tools))))

\* the errors verify_lockfile collects for tool t against the lock's tools
VerifyToolErrors(h, fs, t, tools) ==
    LET Version(lt) ==
            IF is_range(t.version)
            THEN IF ~range_satisfies(t.version, lt.version)
                 THEN {"does not satisfy range"} ELSE {}
            ELSE IF lt.version # t.version THEN {"version mismatch"} ELSE {}
        Source(lt) ==
            IF IsSome(lt.source_template)
               /\ Substitute(Unwrap(lt.source_template), lt.version,
                             placeholder_os(h), placeholder_arch(h))
                    # Replace(render_source(h, t), t.version, lt.version)
            THEN {"source mismatch"} ELSE {}
        Checksum(lt) ==
            IF IsSome(t.sha256) /\ IsSome(lt.sha256) /\ t.sha256 # lt.sha256
            THEN {"checksum mismatch"} ELSE {}
        Digest(lt, actual) ==
            IF IsSome(lt.digest) /\ IsSome(actual) /\ actual # lt.digest
            THEN {"digest mismatch"} ELSE {}
        Against(lt) ==
            Version(lt) \cup Source(lt) \cup Checksum(lt)
              \cup Digest(lt, compute_installed_digest(h, fs, t))
    IN  IF t.name \notin DOMAIN tools THEN {"missing from lock"}
        ELSE Against(tools[t.name])

\* verify_lockfile on a loaded lock: the set of <<tool index, error>>
VerifyErrors(h, fs, tools, lock) ==
    UNION {{<<i, e>> : e \in VerifyToolErrors(h, fs, tools[i], lock.tools)}
              : i \in 1..Len(tools)}

\* ------------------------------------------------------------------------
\* Manifest (config.rs TlkConfig::load, unknown_tools.rs, known_tools.rs)
\*
\* A parsed tlk.toml is [top, form, items]: top maps the top-level keys that
\* hold a string to that string, form says how the `tools` key is written
\* ("none", "array" for [[tools]], "table" for [tools.<name>]) and items are
\* its tables, each with the key it is written under and optional fields.
\* ------------------------------------------------------------------------
\* the top-level keys of the model, in the order a toml table iterates them
KeyOrder == <<<<"helm">>, <<"kubectl">>, <<"mytool">>, <<"node">>, <<"terraform">>>>

RawTable(key, name, version, kind, source, sha256) ==
    [key |-> key, name |-> name, version |-> version, kind |-> kind,
     source |-> source, sha256 |-> sha256, binary |-> None]

\* serde: Tool from a table; name, version and source are required fields
TryIntoTool(tbl) ==
    IF IsSome(tbl.name) /\ IsSome(tbl.version) /\ IsSome(tbl.source)
    THEN Ok([MkTool(Unwrap(tbl.name), Unwrap(tbl.version),
                    IF IsSome(tbl.kind) THEN Unwrap(tbl.kind) ELSE "Archive",
                    Unwrap(tbl.source), tbl.sha256, tbl.binary)
               EXCEPT !.install_dir = IF "install_dir" \in DOMAIN tbl
                                      THEN Some(tbl.install_dir) ELSE None])
    ELSE Err("missing field")

RECURSIVE ParseItems(_, _, _)
ParseItems(form, items, out) ==
    LET Named(it) == IF form = "table" /\ ~IsSome(it.name)
                     THEN [it EXCEPT !.name = Some(it.key)] ELSE it
        Push(t) == IF t.ok THEN ParseItems(form, Tail(items), Append(out, t.val)) ELSE t
    IN  IF items = <<>> THEN Ok(out)
        ELSE Push(TryIntoTool(Named(Head(items))))

parse_unknown(root) ==
    LET Validate(r) ==
            IF ~r.ok THEN r
            ELSE IF \E i \in 1..Len(r.val) : Trim(r.val[i].version) = <<>>
                 THEN Err("missing version")
            ELSE IF \E i \in 1..Len(r.val) : Trim(r.val[i].source) = <<>>
                 THEN Err("missing source")
            ELSE r
    IN  Validate(IF root.form = "none" THEN Ok(<<>>)
                 ELSE ParseItems(root.form, root.items, <<>>))

RECURSIVE ShorthandFrom(_, _, _, _)
ShorthandFrom(h, top, existing, keys) ==
    IF keys = <<>> THEN <<>>
    ELSE LET k    == Head(keys)
             rest == ShorthandFrom(h, top, existing, Tail(keys))
         IN  IF k \in DOMAIN top /\ k \notin existing /\ k \in KnownNames
             THEN <<KnownToolBuild(h, k, top[k])>> \o rest
             ELSE rest

extract_shorthand(h, root, existing) == ShorthandFrom(h, root.top, existing, KeyOrder)

augment_binary_fields(h, tools) ==
    [i \in 1..Len(tools) |->
        IF ~IsSome(tools[i].binary) /\ tools[i].name = <<"helm">>
        THEN [tools[i] EXCEPT !.binary =
                 Some(<<detect_os(h), "-", detect_arch(h), "/", "helm">>)]
        ELSE tools[i]]

\* TlkConfig::load of the file content (None: no file); None when it fails
TlkConfigLoad(h, file) ==
    LET Names(tools) == {tools[i].name : i \in 1..Len(tools)}
        Build(root, tools) ==
            IF ~tools.ok THEN None
            ELSE Some(augment_binary_fields(h,
                        tools.val \o extract_shorthand(h, root, Names(tools.val))))
    IN  IF ~IsSome(file) THEN None
        ELSE Build(Unwrap(file), parse_unknown(Unwrap(file)))

\* ------------------------------------------------------------------------
\* Manifest rewrite after a SPEC install (command_handlers/specs.rs)
\* ------------------------------------------------------------------------
CanonRangeTokens == {<<"^">>, <<"~">>, <<"*">>, <<"x">>, <<"X">>, <<"|", "|">>, <<"-">>,
                     <<">">>, <<"<">>, <<"=">>}

caret_for_version(ver) == IF ~IsVersion(ver) THEN ver ELSE <<"^">> \o ver

canonicalize_spec(user_spec, resolved, exact_flag, latest_flag) ==
    LET Of(trimmed) ==
            IF trimmed = <<>> THEN resolved
            ELSE IF \E t \in CanonRangeTokens : Contains(trimmed, t) THEN trimmed
            ELSE IF IsVersion(trimmed)
                 THEN (IF exact_flag THEN trimmed ELSE <<"^">> \o trimmed)
            ELSE IF Range(trimmed) \subseteq DigitSet \cup {"."}
                    /\ CountOf(trimmed, ".") <= 1
                 THEN trimmed \o <<".", "x">>
            ELSE trimmed
    IN  IF IsSome(user_spec) THEN Of(Trim(Unwrap(user_spec)))
        ELSE IF exact_flag THEN resolved
        ELSE caret_for_version(resolved)

\* index of the first [[tools]] item whose name field is name, 0 when none
FirstNamedItem(items, name) ==
    LET IsNamed(it) == it.name = Some(name)
    IN  FirstIndex(items, IsNamed)

\* canonicalize_spec_logging on the parsed file (a missing file reads as empty)
canonicalize_spec_logging(file, name, user_spec, resolved, exact_flag, latest_flag) ==
    LET SetTop(root, to_store) ==
            [root EXCEPT !.top = [x \in DOMAIN root.top \cup {name} |->
                                     IF x = name THEN to_store ELSE root.top[x]]]
        Named(root, k, to_store) ==
            IF k # 0 THEN [root EXCEPT !.items[k].version = Some(to_store)]
            ELSE SetTop(root, to_store)
        Store(root, to_store) ==
            IF name \in DOMAIN root.top THEN SetTop(root, to_store)
            ELSE IF name = <<"tools">> /\ root.form # "none" THEN root
            ELSE Named(root,
                       IF root.form = "array" THEN FirstNamedItem(root.items, name) ELSE 0,
                       to_store)
    IN  Some(Store(IF IsSome(file) THEN Unwrap(file)
                   ELSE [top |-> EmptyMap, form |-> "none", items |-> <<>>],
                   canonicalize_spec(user_spec, resolved, exact_flag, latest_flag)))

\* ------------------------------------------------------------------------
\* Version index (versioning.rs)
\* ------------------------------------------------------------------------
IndexedNames == {<<"terraform">>, <<"helm">>, <<"kubectl">>, <<"node">>}

\* sort_by(|a, b| b.cmp(a)): a stable sort into descending order
RECURSIVE InsertDesc(_, _)
InsertDesc(v, sorted) ==
    IF sorted = <<>> THEN <<v>>
    ELSE IF VersionCmp(Head(sorted), v) >= 0
         THEN <<Head(sorted)>> \o InsertDesc(v, Tail(sorted))
    ELSE <<v>> \o sorted

RECURSIVE SortDesc(_)
SortDesc(vs) ==
    IF vs = <<>> THEN <<>>
    ELSE InsertDesc(vs[Len(vs)], SortDesc(SubSeq(vs, 1, Len(vs) - 1)))

\* out.sort(): strings in ascending byte order
RECURSIVE InsertAsc(_, _)
InsertAsc(x, sorted) ==
    IF sorted = <<>> THEN <<x>>
    ELSE IF LexCmp(Head(sorted), x) <= 0
         THEN <<Head(sorted)>> \o InsertAsc(x, Tail(sorted))
    ELSE <<x>> \o sorted

RECURSIVE SortAsc(_)
SortAsc(xs) ==
    IF xs = <<>> THEN <<>>
    ELSE InsertAsc(xs[Len(xs)], SortAsc(SubSeq(xs, 1, Len(xs) - 1)))

\* out.dedup(): consecutive repeats removed
RECURSIVE Dedup(_)
Dedup(xs) ==
    IF Len(xs) <= 1 THEN xs
    ELSE IF xs[1] = xs[2] THEN Dedup(Tail(xs))
    ELSE <<xs[1]>> \o Dedup(Tail(xs))

\* the regex group ([0-9]+\.[0-9]+\.[0-9]+) between two slashes
IsTriple(x) ==
    /\ CountOf(x, ".") = 2
    /\ \A i \in 1..Len(Split(x, <<".">>)) :
          Split(x, <<".">>)[i] # <<>> /\ Range(Split(x, <<".">>)[i]) \subseteq DigitSet

\* fetch_hashicorp_list on the directory links of the releases page
fetch_hashicorp_list(links) ==
    LET Tags(keep) == [i \in 1..Len(keep) |-> keep[i].tag]
    IN  Dedup(SortAsc(Tags(SelectSeq(links, LAMBDA l : IsTriple(l.tag)))))

\* fetch_github_list on the items of the releases API
fetch_github_list(items) ==
    LET Norms(keep) == [i \in 1..Len(keep) |-> TrimStartMatches(keep[i].tag, {"v"})]
    IN  Dedup(SortAsc(Norms(SelectSeq(items, LAMBDA it : ~it.prerelease))))

\* the adapter fetch_all_versions picks for an indexed name
fetch_list(name, listing) ==
    IF name = <<"terraform">> THEN fetch_hashicorp_list(listing)
    ELSE fetch_github_list(listing)

\* what fetch_all_versions makes of the strings an adapter returned
ParsedSorted(raw) ==
    LET ok == SelectSeq(raw, IsVersion)
    IN  SortDesc([i \in 1..Len(ok) |-> ParseVersion(ok[i])])

\* ------------------------------------------------------------------------
\* The world a run starts in: manifests, command lines, servers, disks
\* ------------------------------------------------------------------------
MaxTools == 2
MaxSpecs == 2

Ver(a, b, c) == NatToStr(a) \o <<".">> \o NatToStr(b) \o <<".">> \o NatToStr(c)

\* the bytes a server holds for a tool, and a second, different payload
GoodBytes(tool) == <<"good">> \o tool.name \o tool.version
OddBytes(tool) == <<"odd">> \o tool.name \o tool.version

\* the binary inside a payload: its bytes and what it prints for --version
BinaryFile(bytes, tool) ==
    [bytes |-> bytes,
     says  |-> <<tool.name, <<"v">> \o StripRangePrefix(tool.version)>>]

MyToolSrc == <<"https://example.com/mytool-", "{version}", "-", "{os}">>
MyToolTgz == <<"https://example.com/mytool-", "{version}", ".tgz">>
MyToolV1 == <<"1", ".", "2">>
MyToolV2 == Ver(2, 0, 0)
MyTool1 == MkTool(<<"mytool">>, MyToolV1, "Direct", MyToolSrc, None, None)
MyTool2 == MkTool(<<"mytool">>, MyToolV2, "Archive", MyToolTgz, None, None)

\* entries a manifest is assembled from: shorthand lines and [[tools]] tables
ManifestPool ==
    <<[sh |-> TRUE, key |-> <<"helm">>, version |-> <<"^">> \o Ver(3, 14, 0)],
      [sh |-> TRUE, key |-> <<"terraform">>, version |-> Ver(1, 7, 5)],
      [sh |-> FALSE,
       item |-> RawTable(<<>>, Some(<<"mytool">>), Some(MyToolV1), Some("Direct"),
                         Some(MyToolSrc), Some(Sha256(GoodBytes(MyTool1))))],
      [sh |-> FALSE,
       item |-> RawTable(<<>>, Some(<<"mytool">>), Some(MyToolV2), Some("Archive"),
                         Some(MyToolTgz), Some(Sha256(GoodBytes(MyTool2))))],
      [sh |-> FALSE,
       item |-> RawTable(<<>>, Some(<<"broken">>), Some(Ver(1, 0, 0)), None, None, None)]>>

IsShorthand(e) == e.sh
IsItem(e) == ~e.sh

\* the manifest holding the pool entries i..j
TomlOf(i, j) ==
    LET w     == SubSeq(ManifestPool, i, j)
        shs   == SelectSeq(w, IsShorthand)
        its   == SelectSeq(w, IsItem)
    IN  [top   |-> [k \in {shs[n].key : n \in 1..Len(shs)} |->
                       (CHOOSE e \in Range(shs) : e.key = k).version],
         form  |-> IF its = <<>> THEN "none" ELSE "array",
         items |-> [n \in 1..Len(its) |-> its[n].item]]

\* the windows i..j of at most n entries over a pool of len entries
Windows(len, n) ==
    {w \in (1..len) \X (0..len) : w[2] >= w[1] - 1 /\ w[2] - w[1] + 1 <= n}

Manifests == {TomlOf(w[1], w[2]) : w \in Windows(Len(ManifestPool), MaxTools)}

\* an earlier manifest of the project, whose lock may still be on disk
PriorToml ==
    [top   |-> [k \in {<<"kubectl">>, <<"terraform">>} |->
                   IF k = <<"kubectl">> THEN Ver(1, 30, 2) ELSE Ver(1, 7, 4)],
     form  |-> "none", items |-> <<>>]

SpecPool ==
    <<<<"terraform", "@">> \o Ver(1, 7, 5),
      <<"terraform", "@", "^">> \o <<"1", ".", "6">>,
      <<"helm">>,
      <<"kubectl", "@", "latest">>,
      <<"mytool", "@">> \o Ver(1, 0, 0)>>

SpecLists ==
    {SubSeq(SpecPool, w[1], w[2]) : w \in Windows(Len(SpecPool), MaxSpecs)} \ {<<>>}

\* a release as upstream lists it: its tag or directory name, and the
\* pre-release flag of the releases API
Rel(tag, prerelease) == [tag |-> tag, prerelease |-> prerelease]

\* what the release pages and the releases API list
Releases(name) ==
    CASE name = <<"terraform">> ->
           <<Rel(Ver(1, 6, 6), FALSE), Rel(Ver(1, 7, 5), FALSE), Rel(Ver(1, 7, 4), FALSE),
             Rel(Ver(1, 8, 0) \o <<"-", "r", "c", "1">>, FALSE)>>
      [] name = <<"helm">> ->
           <<Rel(<<"v">> \o Ver(3, 14, 3), FALSE), Rel(<<"v">> \o Ver(3, 14, 0), FALSE),
             Rel(<<"c", "a", "n", "a", "r", "y">>, FALSE),
             Rel(<<"v">> \o Ver(3, 15, 0) \o <<"-", "b", "e", "t", "a">>, TRUE)>>
      [] name = <<"kubectl">> ->
           <<Rel(<<"v">> \o Ver(1, 30, 2), FALSE),
             Rel(<<"v">> \o Ver(1, 31, 0) \o <<"-", "r", "c", ".", "1">>, FALSE)>>
      [] OTHER -> <<>>

\* the file a complete install of the server's usual payload leaves behind
InstalledFile(tool) ==
    BinaryFile(IF tool.kind = "Archive" THEN <<"bin">> \o GoodBytes(tool)
               ELSE GoodBytes(tool), tool)

\* where the usual archive of a tool keeps its binary
LayoutPath(h, tool) ==
    IF tool.name = <<"helm">>
    THEN <<detect_os(h), "-", detect_arch(h), "/">> \o final_binary_name(h, tool.name)
    ELSE final_binary_name(h, tool.name)

\* the replies a server may give to the GET of a tool's source: not found; the
\* release, whose archive holds a completion script named like the binary ahead
\* of the binary; a payload without the binary
Replies(h, tool) ==
    {[status |-> 404, bytes |-> <<>>, entries |-> <<>>],
     [status |-> 200, bytes |-> GoodBytes(tool),
      entries |-> <<[path |-> <<"LICENSE">>, file |-> BinaryFile(<<"text">>, tool)],
                    [path |-> <<"completions", "/">> \o final_binary_name(h, tool.name),
                     file |-> BinaryFile(<<"script">>, tool)],
                    [path |-> LayoutPath(h, tool), file |-> InstalledFile(tool)]>>],
     [status |-> 200, bytes |-> OddBytes(tool),
      entries |-> <<[path |-> <<"LICENSE">>, file |-> BinaryFile(<<"text">>, tool)]>>]}

RECURSIVE InstalledFs(_, _, _)
InstalledFs(h, tools, fs) ==
    IF tools = <<>> THEN fs
    ELSE InstalledFs(h, Tail(tools),
                     PutFile(fs, BinPath(h, Head(tools)), InstalledFile(Head(tools))))

ToolsOf(c) == IF IsSome(c) THEN Unwrap(c) ELSE <<>>

\* what a run finds on disk: nothing; the manifest's tools installed and locked;
\* an earlier manifest's tools installed and locked; that lock in a new checkout
Disks == {"fresh", "installed", "prior", "checkout"}

\* the install directory a run finds
DiskFs(h, file, disk) ==
    CASE disk = "installed" -> InstalledFs(h, ToolsOf(TlkConfigLoad(h, file)), EmptyMap)
      [] disk = "prior" -> InstalledFs(h, ToolsOf(TlkConfigLoad(h, Some(PriorToml))), EmptyMap)
      [] OTHER -> EmptyMap

\* the lock a run finds: none, or the one an earlier `install` wrote
DiskLock(h, file, disk) ==
    LET Written(of, at) ==
            Some(SaveImage(LockFileNew(
                LockMapOf(h, DiskFs(h, file, at), ToolsOf(TlkConfigLoad(h, of)), EmptyMap),
                0)))
    IN  IF disk = "fresh" THEN None
        ELSE IF disk = "installed" THEN Written(file, "installed")
        ELSE Written(Some(PriorToml), "prior")

InstallArgs(write_lock, locked, no_verify, specs, exact) ==
    [cmd |-> "install", write_lock |-> write_lock, locked |-> locked,
     no_verify |-> no_verify, specs |-> specs, exact |-> exact]

VerifyArgs == [InstallArgs(FALSE, FALSE, FALSE, <<>>, FALSE) EXCEPT !.cmd = "verify"]

\* command lines without SPEC arguments
PlainArgs ==
    {InstallArgs(TRUE, FALSE, FALSE, <<>>, FALSE),
     InstallArgs(FALSE, FALSE, FALSE, <<>>, FALSE),
     InstallArgs(FALSE, FALSE, TRUE, <<>>, FALSE),
     InstallArgs(TRUE, TRUE, FALSE, <<>>, FALSE),
     VerifyArgs}

\* command lines with SPEC arguments
SpecArgs ==
    {InstallArgs(wl, FALSE, FALSE, sp, FALSE) : wl \in BOOLEAN, sp \in SpecLists}
      \cup {InstallArgs(TRUE, TRUE, FALSE, <<SpecPool[1]>>, FALSE),
            InstallArgs(TRUE, FALSE, FALSE, <<SpecPool[1]>>, TRUE)}

\* the disks a host is started on: every disk on Linux, a fresh one elsewhere
DisksOf(h, disks) == IF h.os = "linux" THEN disks ELSE disks \cap {"fresh"}

\* a manifest whose one tool declares install_dir
OwnDir == "/opt/tools"
OwnDirToml ==
    [top   |-> EmptyMap,
     form  |-> "table",
     items |-> <<[key |-> <<"mytool">>, name |-> None, version |-> Some(MyToolV2),
                  kind |-> Some("Direct"), source |-> Some(MyToolSrc), sha256 |-> None,
                  binary |-> None, install_dir |-> OwnDir]>>]

Scenarios ==
    {[host |-> hd[1], file |-> Some(m), disk |-> hd[2], args |-> a] :
        hd \in {x \in Hosts \X Disks : x[2] \in DisksOf(x[1], Disks)},
        m \in Manifests, a \in PlainArgs}
    \cup {[host |-> h, file |-> Some(OwnDirToml), disk |-> "fresh",
           args |-> InstallArgs(TRUE, FALSE, FALSE, <<>>, FALSE)] : h \in Hosts}
    \cup {[host |-> hd[1], file |-> Some(TomlOf(2, 3)), disk |-> hd[2], args |-> a] :
        hd \in {x \in Hosts \X Disks : x[2] \in DisksOf(x[1], {"fresh", "prior"})},
        a \in SpecArgs}

\* ------------------------------------------------------------------------
\* install_tool: what one call does, given the server's reply
\* (installer.rs install_direct, install_archive, verify_sha256)
\* ------------------------------------------------------------------------
verify_sha256(data, expected) == Sha256(data) = expected

IsSuccess(status) == status >= 200 /\ status <= 299

\* Path::ends_with compares whole components, str::ends_with characters
PathEndsWith(path, c) ==
    EndsWith(path, c) /\ (Len(path) = Len(c) \/ path[Len(path) - Len(c)] = "/")

IsTarGz(url) == EndsWith(url, <<".tar.gz">>) \/ EndsWith(url, <<".tgz">>)
IsZip(url) == EndsWith(url, <<".zip">>)

\* the archive entries install_archive copies onto the target, in archive order
MatchingEntries(h, tool, url, entries) ==
    LET Hit(candidates, e) ==
            \E i \in 1..Len(candidates) :
                IF IsTarGz(url) THEN PathEndsWith(e.path, candidates[i])
                ELSE EndsWith(e.path, candidates[i])
        Files(hits) == [i \in 1..Len(hits) |-> hits[i].file]
        Select(candidates) == Files(SelectSeq(entries, LAMBDA e : Hit(candidates, e)))
    IN  Select(candidate_archive_entry_names(h,
                   IF IsSome(tool.binary) THEN Unwrap(tool.binary) ELSE tool.name))

\* install_direct with the copy onto the target ahead of the checksum test
install_direct_copy_first(h, tool, reply) ==
    IF ~IsSuccess(reply.status) THEN [res |-> "download failed", writes |-> <<>>]
    ELSE IF IsSome(tool.sha256) /\ ~verify_sha256(reply.bytes, Unwrap(tool.sha256))
         THEN [res |-> "checksum mismatch", writes |-> <<BinaryFile(reply.bytes, tool)>>]
    ELSE [res |-> "ok", writes |-> <<BinaryFile(reply.bytes, tool)>>]

\* install_direct: the files written to the target, then the result
install_direct(h, tool, reply) ==
    IF ~IsSuccess(reply.status) THEN [res |-> "download failed", writes |-> <<>>]
    ELSE IF IsSome(tool.sha256) /\ ~verify_sha256(reply.bytes, Unwrap(tool.sha256))
         THEN [res |-> "checksum mismatch", writes |-> <<>>]
    ELSE [res |-> "ok", writes |-> <<BinaryFile(reply.bytes, tool)>>]

\* install_archive: the files written to the target, then the result
install_archive(h, tool, reply) ==
    LET Extract(hits) ==
            IF hits = <<>> THEN [res |-> "did not find expected binary", writes |-> <<>>]
            ELSE [res |-> "ok", writes |-> hits]
        From(url) ==
            IF ~IsTarGz(url) /\ ~IsZip(url)
            THEN [res |-> "unsupported archive type", writes |-> <<>>]
            ELSE Extract(MatchingEntries(h, tool, url, reply.entries))
    IN  IF ~IsSuccess(reply.status) THEN [res |-> "download failed", writes |-> <<>>]
        ELSE IF IsSome(tool.sha256) /\ ~verify_sha256(reply.bytes, Unwrap(tool.sha256))
             THEN [res |-> "checksum mismatch", writes |-> <<>>]
        ELSE From(render_source(h, tool))

IsOkRes(res) == res \in {"ok", "skipped"}

\* install_tool: skip when the installed binary already reports the version
install_tool(h, disk, tool, reply) ==
    LET Skip(installed) == installed.ok /\ installed.val = tool.version
    IN  IF Skip(find_installed_version(h, disk, tool))
        THEN [res |-> "skipped", writes |-> <<>>]
        ELSE IF tool.kind = "Archive" THEN install_archive(h, tool, reply)
        ELSE install_direct(h, tool, reply)

\* summarize_parallel
summarize_parallel(rs) ==
    LET failures == SelectSeq(rs, LAMBDA r : ~IsOkRes(r.res))
    IN  IF failures = <<>> THEN Ok("") ELSE Err("tool(s) failed")

\* install_locked keeping the manifest's version of a tool it finds there
ManifestVersion(t, lt) == t.version

\* the version install_locked gives the manifest's tool for a lock entry
LockedVersion(t, lt) == lt.version

install_locked_tool(h, tools, name, lt) ==
    LET IsNamed(t) == t.name = name
        Key == <<placeholder_os(h), "-", placeholder_arch(h)>>
        Src == IF IsSome(lt.sources) /\ Key \in DOMAIN Unwrap(lt.sources)
               THEN Unwrap(lt.sources)[Key] ELSE lt.source
        WithSource(base) == IF base.ok THEN Ok([base.val EXCEPT !.source = Src]) ELSE base
        From(i) ==
            WithSource(IF i # 0
                       THEN Ok([tools[i] EXCEPT !.version = LockedVersion(tools[i], lt)])
                       ELSE build_known_tool(h, name, lt.version))
    IN  From(FirstIndex(tools, IsNamed))

\* verify_lockfile
\* a verifier that also fails on a lock entry the manifest does not name
verify_lockfile_strict(h, disk, tools, lockpath, now) ==
    LET Extra(lock) == \E n \in DOMAIN lock.tools : \A i \in 1..Len(tools) : tools[i].name # n
        Against(l) ==
            IF ~l.ok THEN l
            ELSE IF ~IsSome(l.val) THEN Ok("no lock present")
            ELSE IF VerifyErrors(h, disk, tools, Unwrap(l.val)) = {} /\ ~Extra(Unwrap(l.val))
                 THEN Ok("Lock verification passed")
            ELSE Err("lock verification failed")
    IN  Against(LockFileLoad(lockpath, now))

verify_lockfile(h, disk, tools, lockpath, now) ==
    LET Against(l) ==
            IF ~l.ok THEN l
            ELSE IF ~IsSome(l.val) THEN Ok("no lock present")
            ELSE IF VerifyErrors(h, disk, tools, Unwrap(l.val)) = {}
                 THEN Ok("Lock verification passed")
            ELSE Err("lock verification failed")
    IN  Against(LockFileLoad(lockpath, now))

parse_spec(spec) ==
    LET sp == SplitOnce(spec, <<"@">>)
    IN  IF IsSome(sp) THEN [name |-> Unwrap(sp)[1], ver_opt |-> Some(Unwrap(sp)[2])]
        ELSE [name |-> spec, ver_opt |-> None]

\* ------------------------------------------------------------------------
\* One run of the tlk binary (main.rs, dispatch.rs, install.rs run_install)
\* ------------------------------------------------------------------------
VARIABLES
    host,       \* the platform the binary was built for and runs on
    manifest,   \* tlk.toml on disk
    cfg,        \* what TlkConfig::load made of it when the process started
    args,       \* the parsed command line
    upstream,   \* what each tool's release page or releases API lists
    cache,      \* VERSION_CACHE
    fetches,    \* how often each tool's index was downloaded
    lockfile,   \* tlk.lock on disk
    lock0,      \* tlk.lock as the run found it
    files,      \* the install directory: path -> file
    files0,     \* the install directory as the run found it
    clock,      \* Utc::now()
    pc,         \* where the main thread is
    idx,        \* the main thread's loop index
    resolved,   \* run_install's list of (tool, per_spec_latest, original spec)
    todo,       \* install_locked: the lock entries not yet visited
    saving,     \* LockFile::save: the serialised text not yet written out
    thr,        \* install_tool calls: 0 is the main thread, 1..N the workers
    chan,       \* the mpsc channel of install_tools_parallel
    results,    \* the Vec install_tools_parallel collects
    ret,        \* what main returns
    log,        \* the install_tool calls that have returned
    touched,    \* the <<thread, path>> pairs a thread created or wrote
    verified,   \* the outcome of verify_lockfile in this run
    callers,    \* threads inside fetch_all_versions, step by step
    loaded      \* the LockFile a LockFile::load call returned

vars == <<host, manifest, cfg, args, upstream, cache, fetches, lockfile, lock0, files,
          files0, clock, pc, idx, resolved, todo, saving, thr, chan, results, ret, log,
          touched, verified, callers, loaded>>

NoTool == MkTool(<<>>, <<>>, "Direct", <<>>, None, None)

IdleThread == [pc |-> "idle", tool |-> NoTool, res |-> "none", writes |-> <<>>,
               before |-> None]

StartThread(tool) == [IdleThread EXCEPT !.pc = "start", !.tool = tool]

Tools == ToolsOf(cfg)

Init ==
    \E sc \in Scenarios :
        /\ host = sc.host
        /\ manifest = sc.file
        /\ cfg = TlkConfigLoad(sc.host, sc.file)
        /\ args = sc.args
        /\ upstream = [n \in IndexedNames |-> Releases(n)]
        /\ cache = EmptyMap
        /\ fetches = [n \in IndexedNames |-> 0]
        /\ lockfile = DiskLock(sc.host, sc.file, sc.disk)
        /\ lock0 = lockfile
        /\ files = DiskFs(sc.host, sc.file, sc.disk)
        /\ files0 = files
        /\ clock = 1
        /\ pc = "main"
        /\ idx = 0
        /\ resolved = <<>>
        /\ todo = {}
        /\ saving = None
        /\ thr = [t \in {0} |-> IdleThread]
        /\ chan = <<>>
        /\ results = <<>>
        /\ ret = "running"
        /\ log = {}
        /\ touched = {}
        /\ verified = "none"
        /\ callers = <<>>
        /\ loaded = None

world == <<host, cfg, args, upstream, lock0, files0, callers, loaded>>
index == <<cache, fetches>>
workers == <<thr, chan, results, log, touched>>

Exit(r) == pc' = "exit" /\ ret' = r

\* ---- install_tool, step by step, on thread t ----

\* the skip test, the GET and the checks on the reply
InstBegin(t) ==
    LET Begin(plan) ==
            thr' = [thr EXCEPT ![t].pc = IF plan.writes = <<>> THEN "done" ELSE "create",
                               ![t].res = plan.res,
                               ![t].writes = plan.writes,
                               ![t].before = FileAt(files, BinPath(host, thr[t].tool))]
    IN  /\ thr[t].pc = "start"
        /\ \E reply \in Replies(host, thr[t].tool) :
              Begin(install_tool(host, files, thr[t].tool, reply))
        /\ UNCHANGED <<world, index, manifest, lockfile, files, clock, pc, idx, resolved,
                       todo, saving, chan, results, ret, log, touched, verified>>

\* File::create on the target: the path now holds an empty file
InstCreate(t) ==
    /\ thr[t].pc = "create"
    /\ files' = PutFile(files, BinPath(host, thr[t].tool), EmptyFile)
    /\ touched' = touched \cup {<<t, BinPath(host, thr[t].tool)>>}
    /\ thr' = [thr EXCEPT ![t].pc = "write"]
    /\ UNCHANGED <<world, index, manifest, lockfile, clock, pc, idx, resolved, todo,
                   saving, chan, results, ret, log, verified>>

\* the copy into the target and chmod; the next matching entry starts over
InstWrite(t) ==
    /\ thr[t].pc = "write"
    /\ files' = PutFile(files, BinPath(host, thr[t].tool), Head(thr[t].writes))
    /\ thr' = [thr EXCEPT ![t].writes = Tail(thr[t].writes),
                          ![t].pc = IF Tail(thr[t].writes) = <<>> THEN "done" ELSE "create"]
    /\ UNCHANGED <<world, index, manifest, lockfile, clock, pc, idx, resolved, todo,
                   saving, chan, results, ret, log, touched, verified>>

\* the record of a returned install_tool call
Returned(t) ==
    [thread |-> t, name |-> thr[t].tool.name, version |-> thr[t].tool.version,
     url |-> render_source(host, thr[t].tool), res |-> thr[t].res]

\* a worker sends (name, res) and ends, dropping its sender
WorkerSend(t) ==
    /\ t # 0
    /\ thr[t].pc = "done"
    /\ chan' = Append(chan, [name |-> thr[t].tool.name, res |-> thr[t].res])
    /\ thr' = [thr EXCEPT ![t].pc = "exited"]
    /\ log' = log \cup {Returned(t)}
    /\ UNCHANGED <<world, index, manifest, lockfile, files, clock, pc, idx, resolved, todo,
                   saving, results, ret, touched, verified>>

\* ---- main thread ----

\* main: `TlkConfig::load(&path)?` fails
LoadFailed ==
    /\ pc = "main"
    /\ ~IsSome(cfg)
    /\ Exit("manifest not loaded")
    /\ UNCHANGED <<world, index, workers, manifest, lockfile, files, clock, idx, resolved,
                   todo, saving, verified>>

\* dispatch and the head of run_install
Dispatch ==
    /\ pc = "main"
    /\ IsSome(cfg)
    /\ IF args.cmd = "install" /\ args.locked /\ args.specs # <<>>
       THEN Exit("--locked cannot be combined with specs") /\ idx' = idx
       ELSE /\ ret' = ret
            /\ idx' = 1
            /\ pc' = IF args.cmd = "verify" THEN "verify"
                     ELSE IF args.locked THEN "locked_load"
                     ELSE IF args.specs # <<>> THEN "resolve"
                     ELSE IF ~args.write_lock /\ ~args.no_verify THEN "verify"
                     ELSE "install_all"
    /\ UNCHANGED <<world, index, workers, manifest, lockfile, files, clock, resolved,
                   todo, saving, verified>>

\* installer::verify_lockfile, from `tlk verify` or ahead of `install --no-lock`
Verify ==
    LET Outcome(v) ==
            /\ verified' = IF v.ok THEN "ok" ELSE "err"
            /\ IF ~v.ok THEN Exit(v.val)
               ELSE IF args.cmd = "verify" THEN Exit("ok")
               ELSE pc' = "install_all" /\ ret' = ret
    IN  /\ pc = "verify"
        /\ Outcome(verify_lockfile(host, files, Tools, lockfile, clock))
        /\ UNCHANGED <<world, index, workers, manifest, lockfile, files, clock, idx,
                       resolved, todo, saving>>

\* the spawn loop of install_tools_parallel: one worker per tool
Spawn(tools) ==
    /\ thr' = [t \in 0..Len(tools) |-> IF t = 0 THEN thr[0] ELSE StartThread(tools[t])]
    /\ chan' = <<>>
    /\ results' = <<>>

\* install_all: sequential for at most one tool, else the workers
InstallAll ==
    /\ pc = "install_all"
    /\ IF Len(Tools) <= 1
       THEN pc' = "seq" /\ UNCHANGED <<thr, chan, results>>
       ELSE pc' = "collect" /\ Spawn(Tools)
    /\ UNCHANGED <<world, index, manifest, lockfile, files, clock, idx, resolved, todo,
                   saving, ret, log, touched, verified>>

\* install_all_sequential: the call of install_tool for the next tool
SeqStart ==
    /\ pc = "seq"
    /\ idx <= Len(Tools)
    /\ thr' = [thr EXCEPT ![0] = StartThread(Tools[idx])]
    /\ pc' = "seq_wait"
    /\ UNCHANGED <<world, index, manifest, lockfile, files, clock, idx, resolved, todo,
                   saving, chan, results, ret, log, touched, verified>>

\* install_all_sequential: the call returned; an error only ends the progress bar
SeqJoin ==
    /\ pc = "seq_wait"
    /\ thr[0].pc = "done"
    /\ log' = log \cup {Returned(0)}
    /\ thr' = [thr EXCEPT ![0].pc = "idle"]
    /\ idx' = idx + 1
    /\ pc' = "seq"
    /\ UNCHANGED <<world, index, manifest, lockfile, files, clock, resolved, todo,
                   saving, chan, results, ret, touched, verified>>

\* what run_install does once install_all returned Ok
AfterInstallAll ==
    IF args.write_lock THEN pc' = "write_lock" /\ ret' = ret ELSE Exit("ok")

\* install_all_sequential returns Ok(())
SeqEnd ==
    /\ pc = "seq"
    /\ idx > Len(Tools)
    /\ AfterInstallAll
    /\ UNCHANGED <<world, index, workers, manifest, lockfile, files, clock, idx, resolved,
                   todo, saving, verified>>

\* a receive loop that ends as soon as the channel is empty (try_iter)
EmptyEndsLoop == TRUE

\* rx.iter() ends when every sender is dropped: tx is, and each worker's clone
\* is when the worker ends
Disconnected == \A t \in DOMAIN thr \ {0} : thr[t].pc = "exited"

\* install_tools_parallel: one turn of `for msg in rx.iter()`
Recv ==
    /\ pc = "collect"
    /\ chan # <<>>
    /\ results' = Append(results, Head(chan))
    /\ chan' = Tail(chan)
    /\ UNCHANGED <<world, index, manifest, lockfile, files, clock, pc, idx, resolved, todo,
                   saving, thr, ret, log, touched, verified>>

\* install_tools_parallel returns the collected results
Collected ==
    /\ pc = "collect"
    /\ chan = <<>>
    /\ Disconnected
    /\ pc' = IF args.specs = <<>> THEN "summarize" ELSE "report"
    /\ UNCHANGED <<world, index, workers, manifest, lockfile, files, clock, idx, resolved,
                   todo, saving, ret, verified>>

\* install_all: summarize_parallel, and `?` in run_install
Summarize ==
    /\ pc = "summarize"
    /\ LET out == summarize_parallel(results)
       IN  IF out.ok THEN AfterInstallAll ELSE Exit(out.val)
    /\ UNCHANGED <<world, index, workers, manifest, lockfile, files, clock, idx, resolved,
                   todo, saving, verified>>

\* ---- LockFile::save: fs::write opens the path truncating, then writes ----

\* installer::write_lockfile up to the point fs::write has opened the path
WriteLockfile ==
    /\ pc = "write_lock"
    /\ saving' = Some(SaveImage(LockFileNew(LockMapOf(host, files, Tools, EmptyMap), clock)))
    /\ lockfile' = Some(TornImage)
    /\ clock' = clock + 1
    /\ pc' = "saving"
    /\ UNCHANGED <<world, index, workers, manifest, files, idx, resolved, todo, ret,
                   verified>>

\* fs::write writes the text out and returns
SaveFinish ==
    /\ pc = "saving"
    /\ lockfile' = saving
    /\ saving' = None
    /\ IF args.specs = <<>> THEN Exit("ok") ELSE pc' = "canonicalize" /\ ret' = ret
    /\ UNCHANGED <<world, index, workers, manifest, files, clock, idx, resolved, todo,
                   verified>>

\* the process is killed between the two
Killed ==
    /\ pc = "saving"
    /\ Exit("killed")
    /\ UNCHANGED <<world, index, workers, manifest, lockfile, files, clock, idx, resolved,
                   todo, saving, verified>>

\* ---- `install SPEC...` ----

\* a cache that keeps nothing
cache_insert_lost(c, name, list) == c

\* cache.insert(name, parsed.clone()) on the map c
cache_insert(c, name, list) ==
    [n \in DOMAIN c \cup {name} |-> IF n = name THEN list ELSE c[n]]

\* fetch_all_versions run to its end by one thread: the result, and whether
\* the index came over the network (net: does the request succeed)
fetch_all_versions(name, net) ==
    IF name \in DOMAIN cache THEN [res |-> Ok(cache[name]), wire |-> FALSE]
    ELSE IF name \notin IndexedNames
         THEN [res |-> Err("version listing unsupported"), wire |-> FALSE]
    ELSE IF ~net THEN [res |-> Err("request failed"), wire |-> FALSE]
    ELSE [res |-> Ok(ParsedSorted(fetch_list(name, upstream[name]))), wire |-> TRUE]

\* fetch_latest on a fetched list
fetch_latest(f) ==
    IF ~f.ok THEN f
    ELSE IF f.val = <<>> THEN Err("no versions found")
    ELSE Ok(VersionToString(f.val[1]))

\* run_install: one turn of the loop that resolves the SPEC arguments
Resolve ==
    LET Latest(sp) == ~IsSome(sp.ver_opt) \/ sp.ver_opt = Some(<<"latest">>)
        Asks(sp) == Latest(sp) \/ ~IsVersion(Unwrap(sp.ver_opt))
        Version(sp, f) ==
            IF Latest(sp) THEN fetch_latest(f)
            ELSE IF ~Asks(sp) THEN Ok(Unwrap(sp.ver_opt))
            ELSE IF ~f.ok THEN f
            ELSE resolve_version(f.val, Unwrap(sp.ver_opt))
        Build(sp, version) ==
            IF version.ok THEN build_known_tool(host, sp.name, version.val) ELSE version
        Push(sp, tool) ==
            IF tool.ok
            THEN /\ resolved' = Append(resolved,
                        [tool |-> tool.val, per_spec_latest |-> Latest(sp),
                         ver_opt |-> sp.ver_opt])
                 /\ idx' = idx + 1
                 /\ UNCHANGED <<pc, ret>>
            ELSE Exit(tool.val) /\ UNCHANGED <<resolved, idx>>
        Fetched(sp, asks, f) ==
            /\ cache' = IF asks /\ f.res.ok
                        THEN cache_insert(cache, sp.name, f.res.val)
                        ELSE cache
            /\ fetches' = IF asks /\ f.wire
                          THEN [fetches EXCEPT ![sp.name] = @ + 1] ELSE fetches
            /\ Push(sp, Build(sp, Version(sp, f.res)))
        Turn(sp, asks) ==
            \E net \in IF asks THEN BOOLEAN ELSE {TRUE} :
                Fetched(sp, asks, fetch_all_versions(sp.name, net))
        One(sp) == Turn(sp, Asks(sp))
    IN  /\ pc = "resolve"
        /\ idx <= Len(args.specs)
        /\ One(parse_spec(args.specs[idx]))
        /\ UNCHANGED <<world, workers, manifest, lockfile, files, clock, todo, saving,
                       verified>>

\* run_install: every SPEC is resolved; install_tools_parallel spawns
ResolveEnd ==
    /\ pc = "resolve"
    /\ idx > Len(args.specs)
    /\ Spawn([i \in 1..Len(resolved) |-> resolved[i].tool])
    /\ pc' = "collect"
    /\ UNCHANGED <<world, index, manifest, lockfile, files, clock, idx, resolved, todo,
                   saving, ret, log, touched, verified>>

\* run_install: the report loop prints; then the lock batch, if any
Report ==
    /\ pc = "report"
    /\ IF args.write_lock THEN pc' = "lock_batch" /\ idx' = 1 /\ ret' = ret
       ELSE Exit("ok") /\ idx' = idx
    /\ UNCHANGED <<world, index, workers, manifest, lockfile, files, clock, resolved, todo,
                   saving, verified>>

\* ops::write_single_lock for the next resolved tool, up to the point
\* fs::write has opened the path; a lock that does not load is only warned about
WriteSingleLock ==
    LET Update(l, tool) ==
            IF l.ok
            THEN /\ saving' = Some(SaveImage(LockFileNew(
                        write_single_lock(host, files,
                            IF IsSome(l.val) THEN Unwrap(l.val).tools ELSE EmptyMap, tool),
                        clock)))
                 /\ lockfile' = Some(TornImage)
                 /\ clock' = clock + 1
                 /\ pc' = "saving"
                 /\ idx' = idx
            ELSE /\ idx' = idx + 1
                 /\ UNCHANGED <<saving, lockfile, clock, pc>>
    IN  /\ pc = "lock_batch"
        /\ idx <= Len(resolved)
        /\ Update(LockFileLoad(lockfile, clock), resolved[idx].tool)
        /\ UNCHANGED <<world, index, workers, manifest, files, resolved, todo, ret,
                       verified>>

\* canonicalize_spec_logging rewrites tlk.toml for the tool just locked
Canonicalize ==
    /\ pc = "canonicalize"
    /\ LET r == resolved[idx]
       IN  manifest' = canonicalize_spec_logging(manifest, r.tool.name,
                           IF r.per_spec_latest THEN None ELSE r.ver_opt,
                           r.tool.version, args.exact, r.per_spec_latest)
    /\ idx' = idx + 1
    /\ pc' = "lock_batch"
    /\ UNCHANGED <<world, index, workers, lockfile, files, clock, resolved, todo, saving,
                   ret, verified>>

\* run_install returns Ok(()) after the lock batch
LockBatchEnd ==
    /\ pc = "lock_batch"
    /\ idx > Len(resolved)
    /\ Exit("ok")
    /\ UNCHANGED <<world, index, workers, manifest, lockfile, files, clock, idx, resolved,
                   todo, saving, verified>>

\* ---- `install --locked` (ops::install_locked) ----

LockedLoad ==
    LET Loaded(l) ==
            IF ~l.ok THEN Exit(l.val) /\ todo' = todo
            ELSE IF ~IsSome(l.val) THEN Exit("no lock file found") /\ todo' = todo
            ELSE pc' = "locked" /\ ret' = ret /\ todo' = DOMAIN Unwrap(l.val).tools
    IN  /\ pc = "locked_load"
        /\ Loaded(LockFileLoad(lockfile, clock))
        /\ UNCHANGED <<world, index, workers, manifest, lockfile, files, clock, idx,
                       resolved, saving, verified>>

\* the loop over lock.tools, a HashMap: the next entry is any entry not yet seen
LockedStart ==
    LET Start(tool) ==
            IF tool.ok
            THEN /\ thr' = [thr EXCEPT ![0] = StartThread(tool.val)]
                 /\ pc' = "locked_wait"
                 /\ ret' = ret
            ELSE Exit(tool.val) /\ thr' = thr
        Entry(name) == Unwrap(LockFileLoad(lock0, clock).val).tools[name]
    IN  /\ pc = "locked"
        /\ \E name \in todo :
              /\ todo' = todo \ {name}
              /\ Start(install_locked_tool(host, Tools, name, Entry(name)))
        /\ UNCHANGED <<world, index, manifest, lockfile, files, clock, idx, resolved,
                       saving, chan, results, log, touched, verified>>

\* install_single returned: `?` ends the loop at the first error
LockedJoin ==
    /\ pc = "locked_wait"
    /\ thr[0].pc = "done"
    /\ log' = log \cup {Returned(0)}
    /\ thr' = [thr EXCEPT ![0].pc = "idle"]
    /\ IF IsOkRes(thr[0].res) THEN pc' = "locked" /\ ret' = ret ELSE Exit(thr[0].res)
    /\ UNCHANGED <<world, index, manifest, lockfile, files, clock, idx, resolved, todo,
                   saving, chan, results, touched, verified>>

LockedEnd ==
    /\ pc = "locked"
    /\ todo = {}
    /\ Exit("ok")
    /\ UNCHANGED <<world, index, workers, manifest, lockfile, files, clock, idx, resolved,
                   todo, saving, verified>>

Next ==
    \/ LoadFailed \/ Dispatch \/ Verify \/ InstallAll
    \/ SeqStart \/ SeqJoin \/ SeqEnd
    \/ Recv \/ Collected \/ Summarize
    \/ WriteLockfile \/ SaveFinish \/ Killed
    \/ Resolve \/ ResolveEnd \/ Report \/ WriteSingleLock \/ Canonicalize \/ LockBatchEnd
    \/ LockedLoad \/ LockedStart \/ LockedJoin \/ LockedEnd
    \/ \E t \in DOMAIN thr : InstBegin(t)
    \/ \E t \in DOMAIN thr : InstCreate(t)
    \/ \E t \in DOMAIN thr : InstWrite(t)
    \/ \E t \in DOMAIN thr : WorkerSend(t)

Spec == Init /\ [][Next]_vars

\* ------------------------------------------------------------------------
\* fetch_all_versions under concurrent callers (versioning.rs): the mutex is
\* held for the lookup and again for the insert, not in between
\* ------------------------------------------------------------------------
MaxCallers == 2
MaxCalls == 2

CallNames == {<<"terraform">>, <<"helm">>, <<"mytool">>}

\* a release that appears upstream while the process runs
NewRelease == Ver(9, 0, 0)

NoCaller == [pc |-> "idle", name |-> <<>>, list |-> <<>>, calls |-> 0]

InitCache ==
    /\ host \in Hosts
    /\ manifest = None
    /\ cfg = None
    /\ args = VerifyArgs
    /\ upstream = [n \in IndexedNames |-> Releases(n)]
    /\ cache = EmptyMap
    /\ fetches = [n \in IndexedNames |-> 0]
    /\ lockfile = None
    /\ lock0 = None
    /\ files = EmptyMap
    /\ files0 = EmptyMap
    /\ clock = 1
    /\ pc = "threads"
    /\ idx = 0
    /\ resolved = <<>>
    /\ todo = {}
    /\ saving = None
    /\ thr = [t \in {0} |-> IdleThread]
    /\ chan = <<>>
    /\ results = <<>>
    /\ ret = "running"
    /\ log = {}
    /\ touched = {}
    /\ verified = "none"
    /\ callers = [c \in 1..MaxCallers |-> NoCaller]
    /\ loaded = None

others == <<host, manifest, cfg, args, lockfile, lock0, files, files0, clock, pc, idx, resolved,
          todo, saving, thr, chan, results, ret, touched, verified, loaded>>

\* caller c returns res from its current call
Return(c, res) ==
    /\ callers' = [callers EXCEPT ![c].pc = "returned"]
    /\ log' = log \cup {[caller |-> c, call |-> callers[c].calls,
                         name |-> callers[c].name, res |-> res]}

\* a thread calls fetch_all_versions(name)
CallBegin(c) ==
    /\ callers[c].pc \in {"idle", "returned"}
    /\ callers[c].calls < MaxCalls
    /\ \E name \in CallNames :
          callers' = [callers EXCEPT ![c] = [pc |-> "check", name |-> name, list |-> <<>>,
                                             calls |-> callers[c].calls + 1]]
    /\ UNCHANGED <<others, upstream, index, log>>

\* the first block: lock, look the name up, unlock; then the match on the name
CacheCheck(c) ==
    /\ callers[c].pc = "check"
    /\ IF callers[c].name \in DOMAIN cache
       THEN Return(c, Ok(cache[callers[c].name]))
       ELSE IF callers[c].name \notin IndexedNames
            THEN Return(c, Err("version listing unsupported"))
       ELSE callers' = [callers EXCEPT ![c].pc = "fetch"] /\ log' = log
    /\ UNCHANGED <<others, upstream, index>>

\* the adapter's GET, then filter_map and sort_by; `?` returns a failed request
ListGet(c) ==
    /\ callers[c].pc = "fetch"
    /\ \E net \in BOOLEAN :
          IF net
          THEN /\ callers' = [callers EXCEPT
                                 ![c].pc = "insert",
                                 ![c].list = ParsedSorted(fetch_list(callers[c].name,
                                                 upstream[callers[c].name]))]
               /\ fetches' = [fetches EXCEPT ![callers[c].name] = @ + 1]
               /\ log' = log
          ELSE Return(c, Err("request failed")) /\ fetches' = fetches
    /\ UNCHANGED <<others, upstream, cache>>

\* the second lock: cache.insert(name, parsed.clone()), and Ok(parsed)
CacheInsert(c) ==
    /\ callers[c].pc = "insert"
    /\ cache' = cache_insert(cache, callers[c].name, callers[c].list)
    /\ Return(c, Ok(callers[c].list))
    /\ UNCHANGED <<others, upstream, fetches>>

\* upstream publishes a release
Publish(n) ==
    /\ Rel(NewRelease, FALSE) \notin Range(upstream[n])
    /\ upstream' = [upstream EXCEPT ![n] = Append(@, Rel(NewRelease, FALSE))]
    /\ UNCHANGED <<others, index, log, callers>>

NextCache ==
    \/ \E c \in DOMAIN callers : CallBegin(c)
    \/ \E c \in DOMAIN callers : CacheCheck(c)
    \/ \E c \in DOMAIN callers : ListGet(c)
    \/ \E c \in DOMAIN callers : CacheInsert(c)
    \/ \E n \in CallNames \cap IndexedNames : Publish(n)

SpecCache == InitCache /\ [][NextCache]_vars

\* ------------------------------------------------------------------------
\* resolve_version(name, spec) called again and again by one process, while
\* upstream publishes and the network comes and goes
\* ------------------------------------------------------------------------
ResolveNames == {<<"terraform">>, <<"helm">>}

ResolveSpecs ==
    {<<"^", "1", ".", "6">>,
     <<"3", ".", "1">>,
     <<"1", ".", "6", " ", "-", " ", "1", ".", "7">>,
     <<"^", "1", ".", "6", " ", "|", "|", " ", "^", "3">>,
     <<"*">>,
     Ver(1, 7, 5)}

InitResolve ==
    /\ host = [os |-> "linux", arch |-> "x86_64"]
    /\ manifest = None
    /\ cfg = None
    /\ args = VerifyArgs
    /\ upstream = [n \in IndexedNames |-> Releases(n)]
    /\ cache = EmptyMap
    /\ fetches = [n \in IndexedNames |-> 0]
    /\ lockfile = None
    /\ lock0 = None
    /\ files = EmptyMap
    /\ files0 = EmptyMap
    /\ clock = 1
    /\ pc = "resolving"
    /\ idx = 0
    /\ resolved = <<>>
    /\ todo = {}
    /\ saving = None
    /\ thr = [t \in {0} |-> IdleThread]
    /\ chan = <<>>
    /\ results = <<>>
    /\ ret = "running"
    /\ log = {}
    /\ touched = {}
    /\ verified = "none"
    /\ callers = <<>>
    /\ loaded = None

\* one call of resolve_version(name, spec): an exact spec returns at once, any
\* other goes through fetch_all_versions first, `?` returning its error
ResolveCall ==
    LET Result(spec, f) ==
            IF IsVersion(spec) THEN Ok(spec)
            ELSE IF ~f.res.ok THEN f.res
            ELSE resolve_version(f.res.val, spec)
        Called(name, spec, f) ==
            /\ cache' = IF ~IsVersion(spec) /\ f.res.ok
                        THEN cache_insert(cache, name, f.res.val) ELSE cache
            /\ fetches' = IF ~IsVersion(spec) /\ f.wire
                          THEN [fetches EXCEPT ![name] = @ + 1] ELSE fetches
            /\ log' = log \cup
                   {[call |-> idx + 1, name |-> name, spec |-> spec,
                     all |-> IF ~IsVersion(spec) /\ f.res.ok THEN Some(f.res.val) ELSE None,
                     res |-> Result(spec, f)]}
    IN  /\ pc = "resolving"
        /\ idx < MaxCalls
        /\ \E name \in ResolveNames, spec \in ResolveSpecs, net \in BOOLEAN :
              Called(name, spec, fetch_all_versions(name, net))
        /\ idx' = idx + 1
        /\ UNCHANGED <<host, manifest, cfg, args, upstream, lockfile, lock0, files, files0,
                       clock, pc, resolved, todo, saving, thr, chan, results, ret,
                       touched, verified, callers, loaded>>

NextResolve ==
    \/ ResolveCall
    \/ \E n \in ResolveNames : Publish(n)

SpecResolve == InitResolve /\ [][NextResolve]_vars

\* ------------------------------------------------------------------------
\* tlk.lock as text: what toml and the serde derives of lock.rs make of the
\* file (a specification of LockFile::load followed by LockFile::save, as
\* uninstall's remove_from_lock runs them)
\* ------------------------------------------------------------------------
MaxLegacy == 2

\* A TOML table is a function from the keys it holds to their values.  A field
\* marked serde(default) reads an absent key as None
KeyOf(tbl, key) == IF key \in DOMAIN tbl THEN Some(tbl[key]) ELSE None

\* and a field that is None is serialised as no key at all
TableOf(fields) ==
    [k \in {x \in DOMAIN fields : IsSome(fields[x])} |-> Unwrap(fields[k])]

\* the top-level keys followed by the tools table or array
WithTools(top, tools) ==
    [k \in DOMAIN top \cup {"tools"} |-> IF k = "tools" THEN tools ELSE top[k]]

\* Deserialize for LockedEntry: version and source are required, keys that are
\* not fields are ignored
LockedEntryOk(tbl) == {"version", "source"} \subseteq DOMAIN tbl

LockedEntryFromToml(tbl) ==
    [version |-> tbl["version"],
     requested_version |-> KeyOf(tbl, "requested_version"),
     source |-> tbl["source"],
     source_template |-> KeyOf(tbl, "source_template"),
     platform |-> KeyOf(tbl, "platform"),
     sources |-> KeyOf(tbl, "sources"),
     sha256 |-> KeyOf(tbl, "sha256"),
     digest |-> KeyOf(tbl, "digest")]

\* an entry serialised without its requested_version
LockedEntryToToml_unrequested(e) ==
    TableOf([version |-> Some(e.version),
             source |-> Some(e.source),
             source_template |-> e.source_template,
             platform |-> e.platform,
             sources |-> e.sources,
             sha256 |-> e.sha256,
             digest |-> e.digest])

\* Serialize for LockedEntry
LockedEntryToToml(e) ==
    TableOf([version |-> Some(e.version),
             requested_version |-> e.requested_version,
             source |-> Some(e.source),
             source_template |-> e.source_template,
             platform |-> e.platform,
             sources |-> e.sources,
             sha256 |-> e.sha256,
             digest |-> e.digest])

\* Deserialize for OldLockedTool: name, version and source are required
OldLockedToolOk(tbl) == {"name", "version", "source"} \subseteq DOMAIN tbl

OldLockedToolFromToml(tbl) ==
    [name |-> tbl["name"],
     version |-> tbl["version"],
     source |-> tbl["source"],
     source_template |-> KeyOf(tbl, "source_template"),
     platform |-> KeyOf(tbl, "platform"),
     sources |-> KeyOf(tbl, "sources"),
     sha256 |-> KeyOf(tbl, "sha256"),
     digest |-> KeyOf(tbl, "digest")]

\* toml::from_str::<LockFile> succeeds: tools is a table of entries
IsV3(doc) ==
    /\ {"generated", "tools"} \subseteq DOMAIN doc
    /\ ~doc["tools"].array
    /\ \A n \in DOMAIN doc["tools"].items : LockedEntryOk(doc["tools"].items[n])

\* toml::from_str::<OldLockFile> succeeds: tools is an array of named entries
IsLegacy(doc) ==
    /\ {"generated", "tools"} \subseteq DOMAIN doc
    /\ doc["tools"].array
    /\ \A i \in DOMAIN doc["tools"].items : OldLockedToolOk(doc["tools"].items[i])

\* the file as LockFile::load reads it: the v3 parse first, then the legacy one
FromToml(doc) ==
    LET Typed(fmt, tools) ==
            [fmt |-> fmt, generated |-> doc["generated"],
             tlk_version |-> KeyOf(doc, "tlk_version"), schema |-> KeyOf(doc, "schema"),
             tools |-> tools]
        Map(items) == [n \in DOMAIN items |-> LockedEntryFromToml(items[n])]
        Array(items) == [i \in DOMAIN items |-> OldLockedToolFromToml(items[i])]
    IN  IF IsV3(doc) THEN Typed("v3", Map(doc["tools"].items))
        ELSE IF IsLegacy(doc) THEN Typed("legacy", Array(doc["tools"].items))
        ELSE [fmt |-> "other", generated |-> 0, tlk_version |-> None, schema |-> None,
              tools |-> EmptyMap]

\* toml::to_string_pretty of the LockFile that save hands it
ToToml(img) ==
    WithTools(TableOf([generated |-> Some(img.generated),
                       tlk_version |-> img.tlk_version,
                       schema |-> img.schema]),
              [array |-> FALSE,
               items |-> [n \in DOMAIN img.tools |-> LockedEntryToToml(img.tools[n])]])

\* ---- the lock files a run can find ----
LockNames == {<<"helm">>, <<"mytool">>}

\* an entry as the current writer leaves it, for a range spec
FullEntry ==
    [version |-> Ver(3, 14, 0),
     requested_version |-> <<"^">> \o Ver(3, 14, 0),
     source |-> Substitute(HelmTpl, Ver(3, 14, 0), "linux", "amd64"),
     source_template |-> HelmTpl,
     platform |-> <<"linux", "-", "x86_64">>,
     sources |-> [k \in PlatformKeys |-> Substitute(HelmTpl, Ver(3, 14, 0), k[1], k[3])],
     digest |-> Sha256(<<"good">>)]

\* an entry with the required keys and a checksum
PlainEntry ==
    [version |-> Ver(1, 0, 0),
     source |-> <<"https://example.com/mytool-", "1", ".", "0", ".", "0">>,
     sha256 |-> Sha256(<<"good">>)]

\* an entry with a key that is no field of LockedEntry
NotedEntry ==
    [version |-> Ver(1, 0, 0),
     source |-> <<"https://example.com/mytool-", "1", ".", "0", ".", "0">>,
     note |-> <<"pinned">>]

\* an entry without its source
BrokenEntry == [version |-> Ver(1, 0, 0)]

EntryTables == {FullEntry, PlainEntry, NotedEntry, BrokenEntry}

Named(name, tbl) ==
    [k \in DOMAIN tbl \cup {"name"} |-> IF k = "name" THEN name ELSE tbl[k]]

OldTables ==
    {Named(n, e) : n \in LockNames, e \in {FullEntry, PlainEntry}} \cup {BrokenEntry}

\* a file with the tools keyed by name
V3Tools ==
    {[array |-> FALSE, items |-> f] :
        f \in UNION {[names -> EntryTables] : names \in SUBSET LockNames}}

\* a file with the tools as an array of at most MaxLegacy tables
LegacyTools ==
    {[array |-> TRUE, items |-> a] :
        a \in UNION {[1..k -> OldTables] : k \in 0..MaxLegacy}}

\* the files with one of these as tools, with and without the optional keys
LockDocs(choice) ==
    {WithTools(TableOf([generated |-> Some(0), tlk_version |-> tv, schema |-> sc]), tools) :
        tv \in {None, Some("0.1.0")}, sc \in {None, Some(3)}, tools \in choice}

InitLock ==
    /\ host = [os |-> "linux", arch |-> "x86_64"]
    /\ manifest = None
    /\ cfg = None
    /\ args = VerifyArgs
    /\ upstream = [n \in IndexedNames |-> Releases(n)]
    /\ cache = EmptyMap
    /\ fetches = [n \in IndexedNames |-> 0]
    /\ \/ lock0 \in {Some(d) : d \in LockDocs(V3Tools)}
       \/ lock0 \in {Some(d) : d \in LockDocs(LegacyTools)}
    /\ lockfile = lock0
    /\ files = EmptyMap
    /\ files0 = EmptyMap
    /\ clock = 1
    /\ pc = "load"
    /\ idx = 0
    /\ resolved = <<>>
    /\ todo = {}
    /\ saving = None
    /\ thr = [t \in {0} |-> IdleThread]
    /\ chan = <<>>
    /\ results = <<>>
    /\ ret = "running"
    /\ log = {}
    /\ touched = {}
    /\ verified = "none"
    /\ callers = <<>>
    /\ loaded = None

\* LockFile::load of the file at the lock path; `?` returns its error
LockLoad ==
    LET Loaded(r) ==
            IF r.ok THEN loaded' = r.val /\ pc' = "save" /\ ret' = ret
            ELSE loaded' = loaded /\ Exit(r.val)
    IN  /\ pc = "load"
        /\ Loaded(LockFileLoad(Some(FromToml(Unwrap(lockfile))), clock))
        /\ UNCHANGED <<host, manifest, cfg, args, upstream, index, lockfile, lock0, files,
                       files0, clock, idx, resolved, todo, saving, workers, verified,
                       callers>>

\* LockFile::save of what was loaded, over the same path
LockSave ==
    /\ pc = "save"
    /\ lockfile' = Some(ToToml(SaveImage(Unwrap(loaded))))
    /\ Exit("ok")
    /\ UNCHANGED <<world, manifest, index, files, clock, idx, resolved, todo, saving,
                   workers, verified>>

NextLock ==
    \/ LockLoad
    \/ LockSave

SpecLock == InitLock /\ [][NextLock]_vars

\* ------------------------------------------------------------------------
\* Template lookup (a specification of Tool::effective_source_template on
\* tools with per_os and per_os_arch tables)
\* ------------------------------------------------------------------------
\* the ArchSources tables of one OS key: each template names its place
ArchChoices(os) ==
    {NoArch,
     [NoArch EXCEPT !.amd64 = Some(<<os, "/amd64">>)],
     [NoArch EXCEPT !.x86_64 = Some(<<os, "/x86_64">>), !.arm64 = Some(<<os, "/arm64">>)],
     [NoArch EXCEPT !.amd64 = Some(<<os, "/amd64">>), !.x86_64 = Some(<<os, "/x86_64">>),
                    !.aarch64 = Some(<<os, "/aarch64">>)]}

OptionOf(set) == {None} \cup {Some(x) : x \in set}

PerOsArchChoices ==
    {[linux |-> l, mac |-> m, windows |-> None] :
        l \in OptionOf(ArchChoices("linux")), m \in OptionOf(ArchChoices("mac"))}

PerOsChoices ==
    {[linux |-> Some(<<"linux/any">>), mac |-> None, windows |-> None],
     [linux |-> None, mac |-> Some(<<"mac/any">>), windows |-> Some(<<"windows/any">>)]}

TemplateTools ==
    {[MkTool(<<"mytool">>, Ver(1, 0, 0), "Direct", MyToolSrc, None, None)
        EXCEPT !.per_os = po, !.per_os_arch = poa] :
        po \in OptionOf(PerOsChoices), poa \in OptionOf(PerOsArchChoices)}

\* the OS and architecture names a caller can pass
OsNames == {"linux", "darwin", "macos", "windows", "freebsd"}
ArchNames == {"amd64", "x86_64", "arm64", "aarch64", "riscv64"}

InitTemplate ==
    /\ host = [os |-> "linux", arch |-> "x86_64"]
    /\ manifest = None
    /\ cfg \in {Some(<<t>>) : t \in TemplateTools}
    /\ args = VerifyArgs
    /\ upstream = [n \in IndexedNames |-> Releases(n)]
    /\ cache = EmptyMap
    /\ fetches = [n \in IndexedNames |-> 0]
    /\ lockfile = None
    /\ lock0 = None
    /\ files = EmptyMap
    /\ files0 = EmptyMap
    /\ clock = 1
    /\ pc = "template"
    /\ idx = 0
    /\ resolved = <<>>
    /\ todo = {}
    /\ saving = None
    /\ thr = [t \in {0} |-> IdleThread]
    /\ chan = <<>>
    /\ results = <<>>
    /\ ret = "running"
    /\ log = {}
    /\ touched = {}
    /\ verified = "none"
    /\ callers = <<>>
    /\ loaded = None

\* one call tool.effective_source_template(os, arch)
TemplateCall ==
    /\ pc = "template"
    /\ \E os \in OsNames, arch \in ArchNames :
          log' = {[os |-> os, arch |-> arch,
                   tpl |-> effective_source_template(Tools[1], os, arch)]}
    /\ Exit("ok")
    /\ UNCHANGED <<world, manifest, index, lockfile, files, clock, idx, resolved, todo,
                   saving, thr, chan, results, touched, verified>>

NextTemplate == TemplateCall

SpecTemplate == InitTemplate /\ [][NextTemplate]_vars

\* ------------------------------------------------------------------------
\* Manifest loading (a specification of TlkConfig::load on manifests of every
\* form: shorthand lines, [tools.<key>] tables, a legacy [[tools]] array)
\* ------------------------------------------------------------------------
MaxItems == 2

\* the tables a manifest's tools can hold: a plain one, one whose name field
\* overrides its key, one named like a known tool, one with an empty version,
\* one with a blank source, one with an empty name
ItemPool ==
    <<RawTable(<<"alpha">>, None, Some(MyToolV2), Some("Archive"), Some(MyToolTgz), None),
      RawTable(<<"beta">>, Some(<<"alpha">>), Some(MyToolV1), Some("Direct"),
               Some(MyToolSrc), None),
      RawTable(<<"gamma">>, Some(<<"terraform">>), Some(Ver(1, 6, 6)), None,
               Some(TerraformTpl), None),
      RawTable(<<"delta">>, Some(<<"delta">>), Some(<<>>), None, Some(MyToolSrc), None),
      RawTable(<<"epsilon">>, Some(<<"epsilon">>), Some(MyToolV2), None, Some(<<" ">>), None),
      RawTable(<<"zeta">>, Some(<<>>), Some(MyToolV2), None, Some(MyToolTgz), None)>>

\* the index sequences of at most MaxItems entries: any for the array, strictly
\* increasing (a table has each key once, and iterates in key order) for tables
ArrayPicks == UNION {[1..k -> 1..Len(ItemPool)] : k \in 1..MaxItems}

TablePicks == {p \in ArrayPicks : \A i \in 1..(Len(p) - 1) : p[i] < p[i + 1]}

\* the shorthand lines: an exact version, an empty string, a bare "v"
ShorthandValues == {Ver(1, 7, 5), <<>>, <<"v">>}

ShorthandTops ==
    UNION {[names -> ShorthandValues] : names \in SUBSET {<<"terraform">>, <<"helm">>}}

\* an array element carries its name itself, if at all
AsArrayItem(it) == IF IsSome(it.name) THEN it ELSE [it EXCEPT !.name = Some(it.key)]

ManifestDocs ==
    {[top |-> top, form |-> "none", items |-> <<>>] : top \in ShorthandTops}
    \cup {[top |-> top, form |-> "table", items |-> [i \in DOMAIN p |-> ItemPool[p[i]]]] :
            top \in ShorthandTops, p \in TablePicks}
    \cup {[top |-> top, form |-> "array",
           items |-> [i \in DOMAIN p |-> AsArrayItem(ItemPool[p[i]])]] :
            top \in ShorthandTops, p \in ArrayPicks}

InitManifest ==
    /\ host = [os |-> "linux", arch |-> "x86_64"]
    /\ manifest \in OptionOf(ManifestDocs)
    /\ cfg = None
    /\ args = VerifyArgs
    /\ upstream = [n \in IndexedNames |-> Releases(n)]
    /\ cache = EmptyMap
    /\ fetches = [n \in IndexedNames |-> 0]
    /\ lockfile = None
    /\ lock0 = None
    /\ files = EmptyMap
    /\ files0 = EmptyMap
    /\ clock = 1
    /\ pc = "load"
    /\ idx = 0
    /\ resolved = <<>>
    /\ todo = {}
    /\ saving = None
    /\ thr = [t \in {0} |-> IdleThread]
    /\ chan = <<>>
    /\ results = <<>>
    /\ ret = "running"
    /\ log = {}
    /\ touched = {}
    /\ verified = "none"
    /\ callers = <<>>
    /\ loaded = None

\* main: TlkConfig::load(&path), and `?` on what it returns
ConfigLoad ==
    LET Got(c) ==
            /\ cfg' = c
            /\ IF IsSome(c) THEN pc' = "main" /\ ret' = ret
               ELSE Exit("manifest not loaded")
    IN  /\ pc = "load"
        /\ Got(TlkConfigLoad(host, manifest))
        /\ UNCHANGED <<host, args, upstream, lock0, files0, callers, loaded, manifest, index,
                       lockfile, files, clock, idx, resolved, todo, saving, workers,
                       verified>>

NextManifest == ConfigLoad

SpecManifest == InitManifest /\ [][NextManifest]_vars

\* ------------------------------------------------------------------------
\* `tlk uninstall NAME` (dispatch.rs, command_handlers/uninstall.rs), run from
\* the project root on what an install of the manifest left behind
\* ------------------------------------------------------------------------
UninstallArgs(names) == [InstallArgs(FALSE, FALSE, FALSE, <<>>, FALSE)
                            EXCEPT !.cmd = "uninstall", !.specs = names]

UninstallNames == {<<"terraform">>, <<"helm">>, <<"alpha">>}

\* PlatformOps::global_bin_dir with the home directory set
GlobalBinDir == "{home}/.tlk/bin"

RemoveKey(map, k) == [n \in DOMAIN map \ {k} |-> map[n]]

\* uninstall_tool up to remove_from_config: the files it removes
uninstall_files(h, file, fs, name) ==
    LET ByName(tools) == SelectSeq(tools, LAMBDA t : t.name = name)
        Dir(tool) == IF IsSome(tool.install_dir) THEN Unwrap(tool.install_dir)
                     ELSE GlobalBinDir
        FromDir(found) ==
            IF found = <<>> THEN {} ELSE {<<Dir(found[1]), final_binary_name(h, name)>>}
        Gone(first) ==
            first \cup {<<ProjectBinDir, final_binary_name(h, name)>>, <<ProjectBinDir, name>>}
        Left(gone) == [x \in DOMAIN fs \ gone |-> fs[x]]
    IN  Left(Gone(FromDir(ByName(ToolsOf(TlkConfigLoad(h, file))))))

\* remove_from_config: the shorthand line and the array elements of that name
remove_from_config(root, name) ==
    [top |-> IF name \in DOMAIN root.top THEN RemoveKey(root.top, name) ELSE root.top,
     form |-> root.form,
     items |-> IF root.form = "array"
               THEN SelectSeq(root.items, LAMBDA it : it.name # Some(name))
               ELSE root.items]

\* remove_from_lock: load, remove, save; no file is left alone
remove_from_lock(file, name, now) ==
    LET Removed(lf) == [lf EXCEPT !.tools = RemoveKey(lf.tools, name)]
        Saved(l) == IF ~l.ok THEN l
                    ELSE IF ~IsSome(l.val) THEN Ok(file)
                    ELSE Ok(Some(SaveImage(Removed(Unwrap(l.val)))))
    IN  Saved(LockFileLoad(file, now))

\* the manifests of the runs: every form, shorthand lines with a version
UninstallDocs == {d \in ManifestDocs : \A k \in DOMAIN d.top : d.top[k] = Ver(1, 7, 5)}

InitUninstall ==
    /\ host \in {h \in Hosts : h.os # "macos"}
    /\ manifest \in {Some(d) : d \in UninstallDocs}
    /\ cfg = TlkConfigLoad(host, manifest)
    /\ args \in {UninstallArgs(<<n>>) : n \in UninstallNames} \cup {UninstallArgs(<<>>)}
    /\ upstream = [n \in IndexedNames |-> Releases(n)]
    /\ cache = EmptyMap
    /\ fetches = [n \in IndexedNames |-> 0]
    /\ files0 = InstalledFs(host, Tools, EmptyMap)
    /\ files = files0
    /\ lock0 \in {None,
                  Some(SaveImage(LockFileNew(LockMapOf(host, files0, Tools, EmptyMap), 0)))}
    /\ lockfile = lock0
    /\ clock = 1
    /\ pc = "main"
    /\ idx = 0
    /\ resolved = <<>>
    /\ todo = {}
    /\ saving = None
    /\ thr = [t \in {0} |-> IdleThread]
    /\ chan = <<>>
    /\ results = <<>>
    /\ ret = "running"
    /\ log = {}
    /\ touched = {}
    /\ verified = "none"
    /\ callers = <<>>
    /\ loaded = None

\* dispatch, Commands::Uninstall
UninstallDispatch ==
    /\ pc = "main"
    /\ IsSome(cfg)
    /\ IF args.specs = <<>>
       THEN Exit("at least one tool name required") /\ idx' = idx
       ELSE pc' = "uninstall" /\ idx' = 1 /\ ret' = ret
    /\ UNCHANGED <<world, index, workers, manifest, lockfile, files, clock, resolved,
                   todo, saving, verified>>

\* uninstall_tool: the binary's files are removed
UninstallBinary ==
    /\ pc = "uninstall"
    /\ idx <= Len(args.specs)
    /\ files' = uninstall_files(host, manifest, files, args.specs[idx])
    /\ pc' = "remove_from_config"
    /\ UNCHANGED <<world, index, manifest, lockfile, clock, idx, resolved, todo, saving,
                   thr, chan, results, ret, log, touched, verified>>

\* uninstall_tool: remove_from_config rewrites tlk.toml
RemoveFromConfig ==
    /\ pc = "remove_from_config"
    /\ manifest' = Some(remove_from_config(Unwrap(manifest), args.specs[idx]))
    /\ pc' = "remove_from_lock"
    /\ UNCHANGED <<world, index, lockfile, files, clock, idx, resolved, todo, saving,
                   thr, chan, results, ret, log, touched, verified>>

\* uninstall_tool: remove_from_lock rewrites tlk.lock; dispatch prints the
\* outcome and goes on to the next name
RemoveFromLock ==
    LET Done(r) ==
            /\ lockfile' = IF r.ok THEN r.val ELSE lockfile
            /\ results' = Append(results, [name |-> args.specs[idx],
                                           res |-> IF r.ok THEN "ok" ELSE r.val])
    IN  /\ pc = "remove_from_lock"
        /\ Done(remove_from_lock(lockfile, args.specs[idx], clock))
        /\ idx' = idx + 1
        /\ pc' = "uninstall"
        /\ UNCHANGED <<world, index, manifest, files, clock, resolved, todo, saving, thr,
                       chan, ret, log, touched, verified>>

\* dispatch returns Ok after the last name
UninstallEnd ==
    /\ pc = "uninstall"
    /\ idx > Len(args.specs)
    /\ Exit("ok")
    /\ UNCHANGED <<world, index, workers, manifest, lockfile, files, clock, idx, resolved,
                   todo, saving, verified>>

NextUninstall ==
    \/ LoadFailed
    \/ UninstallDispatch
    \/ UninstallBinary
    \/ RemoveFromConfig
    \/ RemoveFromLock
    \/ UninstallEnd

SpecUninstall == InitUninstall /\ [][NextUninstall]_vars

\* ------------------------------------------------------------------------
\* `tlk migrate-lock` (dispatch.rs, command_handlers/migrate.rs)
\* ------------------------------------------------------------------------
MigrateArgs == [InstallArgs(FALSE, FALSE, FALSE, <<>>, FALSE) EXCEPT !.cmd = "migrate-lock"]

\* the entry migrate_lock builds for one tool (its own copy of normalize_version,
\* the same text as the one in ops.rs)
MigrateEntryOf(h, fs, t) ==
    LET Entry(nv) ==
            to_locked_entry(h, nv.exact, nv.requested,
                Replace(render_source(h, t), t.version, nv.exact),
                effective_source_template(t, placeholder_os(h), placeholder_arch(h)),
                t.sha256, compute_installed_digest(h, fs, t))
    IN  Entry(ops_normalize_version(t.version))

\* the map migrate_lock fills from cfg.tools (map.insert replaces)
RECURSIVE MigrateMapOf(_, _, _, _)
MigrateMapOf(h, fs, tools, map) ==
    LET Insert(name, e) ==
            [n \in DOMAIN map \cup {name} |-> IF n = name THEN e ELSE map[n]]
    IN  IF tools = <<>> THEN map
        ELSE MigrateMapOf(h, fs, Tail(tools),
                          Insert(Head(tools).name, MigrateEntryOf(h, fs, Head(tools))))

\* a migration that keeps the old lock's entries of names the manifest lacks
migrate_lock_keep_old(h, fs, tools, file, now) ==
    LET Loaded(l) ==
            IF ~l.ok THEN Err(l.val)
            ELSE IF ~IsSome(l.val) THEN Ok(None)
            ELSE Ok(Some(SaveImage(LockFileNew(
                        MigrateMapOf(h, fs, tools, Unwrap(l.val).tools), now))))
    IN  Loaded(LockFileLoad(file, now))

\* migrate_lock: Err, Ok(None) when there is nothing to migrate, or Ok(Some(the
\* image it saves))
migrate_lock(h, fs, tools, file, now) ==
    LET Loaded(l) ==
            IF ~l.ok THEN Err(l.val)
            ELSE IF ~IsSome(l.val) THEN Ok(None)
            ELSE Ok(Some(SaveImage(LockFileNew(MigrateMapOf(h, fs, tools, EmptyMap), now))))
    IN  Loaded(LockFileLoad(file, now))

\* a lock as a release before schema 3 wrote it: the entries as an array
LegacyImage(h, fs, tools) ==
    [fmt |-> "legacy", generated |-> 0, tlk_version |-> None, schema |-> Some(1),
     tools |-> [i \in 1..Len(tools) |->
                   [name |-> tools[i].name,
                    version |-> tools[i].version,
                    source |-> render_source(h, tools[i]),
                    source_template |-> None,
                    platform |-> None,
                    sources |-> None,
                    sha256 |-> tools[i].sha256,
                    digest |-> compute_installed_digest(h, fs, tools[i])]]]

\* the locks a migration may find: none; the manifest's own; an earlier
\* manifest's, as this release, an earlier one with another schema number, or
\* one before schema 3 wrote it; a file cut short
MigrateLocks(h, file) ==
    LET Older(img) == Some([Unwrap(img) EXCEPT !.schema = Some(2), !.tlk_version = None])
    IN  {None,
         DiskLock(h, file, "installed"),
         DiskLock(h, file, "prior"),
         Older(DiskLock(h, file, "prior")),
         Some(LegacyImage(h, DiskFs(h, file, "prior"),
                          ToolsOf(TlkConfigLoad(h, Some(PriorToml))))),
         Some(TornImage)}

InitMigrate ==
    /\ host \in Hosts
    /\ manifest \in {Some(m) : m \in Manifests}
    /\ cfg = TlkConfigLoad(host, manifest)
    /\ args = MigrateArgs
    /\ upstream = [n \in IndexedNames |-> Releases(n)]
    /\ cache = EmptyMap
    /\ fetches = [n \in IndexedNames |-> 0]
    /\ lock0 \in MigrateLocks(host, manifest)
    /\ lockfile = lock0
    /\ files0 \in {DiskFs(host, manifest, d) : d \in {"fresh", "installed"}}
    /\ files = files0
    /\ clock = 1
    /\ pc = "main"
    /\ idx = 0
    /\ resolved = <<>>
    /\ todo = {}
    /\ saving = None
    /\ thr = [t \in {0} |-> IdleThread]
    /\ chan = <<>>
    /\ results = <<>>
    /\ ret = "running"
    /\ log = {}
    /\ touched = {}
    /\ verified = "none"
    /\ callers = <<>>
    /\ loaded = None

\* dispatch, Commands::MigrateLock
MigrateDispatch ==
    /\ pc = "main"
    /\ IsSome(cfg)
    /\ pc' = "migrate"
    /\ UNCHANGED <<world, index, workers, manifest, lockfile, files, clock, idx, resolved,
                   todo, saving, ret, verified>>

\* migrate_lock up to the start of lf.save
MigrateLock ==
    LET Done(r) ==
            IF ~r.ok THEN Exit(r.val) /\ UNCHANGED <<lockfile, saving, clock>>
            ELSE IF ~IsSome(r.val) THEN Exit("ok") /\ UNCHANGED <<lockfile, saving, clock>>
            ELSE /\ saving' = r.val
                 /\ lockfile' = Some(TornImage)
                 /\ clock' = clock + 1
                 /\ pc' = "saving"
                 /\ ret' = ret
    IN  /\ pc = "migrate"
        /\ Done(migrate_lock(host, files, Tools, lockfile, clock))
        /\ UNCHANGED <<world, index, workers, manifest, files, idx, resolved, todo,
                       verified>>

NextMigrate ==
    \/ LoadFailed
    \/ MigrateDispatch
    \/ MigrateLock
    \/ SaveFinish
    \/ Killed

SpecMigrate == InitMigrate /\ [][NextMigrate]_vars

\* ------------------------------------------------------------------------
\* write_lockfile, then verify_lockfile in a later run on the same manifest and
\* install directory (installer.rs)
\* ------------------------------------------------------------------------
\* the version specs of the manifests: exact, caret, comparator, wildcard
VersionForms ==
    {Ver(1, 7, 5), <<"^">> \o Ver(1, 7, 0), <<">">> \o Ver(1, 0, 0), <<"1", ".", "x">>}

\* the known tools of the manifests: an archive and a direct download with a
\* template, and one whose source a function builds
WrittenNames == {<<"terraform">>, <<"kubectl">>, <<"node">>}

WrittenTomls ==
    {[top |-> top, form |-> "none", items |-> <<>>] :
        top \in UNION {[names -> VersionForms] : names \in SUBSET WrittenNames}}

InitWriteVerify ==
    /\ host \in Hosts
    /\ manifest \in {Some(d) : d \in WrittenTomls}
    /\ cfg = TlkConfigLoad(host, manifest)
    /\ args = VerifyArgs
    /\ upstream = [n \in IndexedNames |-> Releases(n)]
    /\ cache = EmptyMap
    /\ fetches = [n \in IndexedNames |-> 0]
    /\ lock0 = None
    /\ lockfile = None
    /\ files0 \in {DiskFs(host, manifest, d) : d \in {"fresh", "installed"}}
    /\ files = files0
    /\ clock = 1
    /\ pc = "main"
    /\ idx = 0
    /\ resolved = <<>>
    /\ todo = {}
    /\ saving = None
    /\ thr = [t \in {0} |-> IdleThread]
    /\ chan = <<>>
    /\ results = <<>>
    /\ ret = "running"
    /\ log = {}
    /\ touched = {}
    /\ verified = "none"
    /\ callers = <<>>
    /\ loaded = None

\* write_lockfile run to its end; the next run is `tlk verify`
WriteLockRun ==
    /\ pc = "main"
    /\ IsSome(cfg)
    /\ ~IsSome(lockfile)
    /\ lockfile' = Some(SaveImage(LockFileNew(LockMapOf(host, files, Tools, EmptyMap), clock)))
    /\ clock' = clock + 1
    /\ pc' = "verify"
    /\ UNCHANGED <<world, index, workers, manifest, files, idx, resolved, todo, saving,
                   ret, verified>>

NextWriteVerify ==
    \/ WriteLockRun
    \/ Verify

SpecWriteVerify == InitWriteVerify /\ [][NextWriteVerify]_vars

\* ------------------------------------------------------------------------
\* `tlk install --locked` on a lock that any host may have written
\* (ops.rs install_locked)
\* ------------------------------------------------------------------------
\* the manifests of the project: known tools with a template and with a source
\* function, with or without a tool whose template names the OS alone
LockedTomls ==
    {[top |-> top, form |-> IF its = <<>> THEN "none" ELSE "array", items |-> its] :
        top \in UNION {[names -> {Ver(1, 7, 5)}] :
                          names \in SUBSET {<<"terraform">>, <<"kubectl">>, <<"node">>}},
        its \in {<<>>, <<RawTable(<<>>, Some(<<"mytool">>), Some(MyToolV2), Some("Direct"),
                                  Some(MyToolSrc), None)>>}}

\* the lock write_lockfile leaves on host w for the manifest, nothing installed
LockWrittenOn(w, file) ==
    Some(SaveImage(LockFileNew(
        LockMapOf(w, EmptyMap, ToolsOf(TlkConfigLoad(w, file)), EmptyMap), 0)))

InitLocked ==
    /\ host \in Hosts
    /\ manifest \in {Some(d) : d \in LockedTomls}
    /\ cfg = TlkConfigLoad(host, manifest)
    /\ args = InstallArgs(TRUE, TRUE, FALSE, <<>>, FALSE)
    /\ upstream = [n \in IndexedNames |-> Releases(n)]
    /\ cache = EmptyMap
    /\ fetches = [n \in IndexedNames |-> 0]
    /\ lock0 \in {LockWrittenOn(w, manifest) : w \in Hosts}
    /\ lockfile = lock0
    /\ files0 = EmptyMap
    /\ files = files0
    /\ clock = 1
    /\ pc = "main"
    /\ idx = 0
    /\ resolved = <<>>
    /\ todo = {}
    /\ saving = None
    /\ thr = [t \in {0} |-> IdleThread]
    /\ chan = <<>>
    /\ results = <<>>
    /\ ret = "running"
    /\ log = {}
    /\ touched = {}
    /\ verified = "none"
    /\ callers = <<>>
    /\ loaded = None

NextLocked ==
    \/ Dispatch
    \/ LockedLoad \/ LockedStart \/ LockedJoin \/ LockedEnd
    \/ \E t \in DOMAIN thr : InstBegin(t)
    \/ \E t \in DOMAIN thr : InstCreate(t)
    \/ \E t \in DOMAIN thr : InstWrite(t)

SpecLocked == InitLocked /\ [][NextLocked]_vars

\* ------------------------------------------------------------------------
\* Properties
\* ------------------------------------------------------------------------
\* the entry a lock file holds for a name, if any
EntryIn(lock, name) ==
    IF IsSome(lock) /\ name \in DOMAIN Unwrap(lock).tools
    THEN Some(Unwrap(lock).tools[name]) ELSE None

\* the lock path holds a complete file, or none
LockWhole == ~IsSome(lockfile) \/ Unwrap(lockfile).fmt # "torn"

\* an install run that writes the lock: bulk `install` or `install SPEC...`
LockingInstall == args.cmd = "install" /\ ~args.locked /\ args.write_lock

\* C1: in an install run that writes the lock, whenever the lock file is whole,
\* a name whose entry differs from the one the run found has an install that
\* returned ok or skipped, and a name whose install failed has the entry (or
\* the absence of one) the run found.
C1_LockOnlyAfterSuccess ==
    (LockingInstall /\ LockWhole) =>
        /\ \A n \in {t.name : t \in Range(Tools)} \cup {r.tool.name : r \in Range(resolved)} :
              EntryIn(lockfile, n) # EntryIn(lock0, n) =>
                  \E r \in log : r.name = n /\ IsOkRes(r.res)
        /\ \A r \in log :
              ~IsOkRes(r.res) => EntryIn(lockfile, r.name) = EntryIn(lock0, r.name)

\* C2: whenever verify_lockfile succeeds against an existing lock, every
\* manifest tool has an entry whose version equals its exact-semver spec, or,
\* its spec not being an exact version, is an exact version satisfying it.
C2_VerifiedLockIsExact ==
    (verified = "ok" /\ IsSome(lockfile)) =>
        \A t \in Range(Tools) :
            /\ IsSome(EntryIn(lockfile, t.name))
            /\ LET lt == Unwrap(EntryIn(lockfile, t.name))
               IN  IF IsVersion(t.version) THEN lt.version = t.version
                   ELSE IsVersion(lt.version) /\ range_satisfies(t.version, lt.version)

\* C3: after a bulk install that wrote the lock, the entry of a manifest tool
\* whose version is a range and whose install returned ok holds the greatest
\* upstream version satisfying the range as `version` and the spec string as
\* `requested_version`.
C3_RangeResolvedUpstream ==
    (LockingInstall /\ args.specs = <<>> /\ pc = "exit" /\ ret = "ok") =>
        \A t \in Range(Tools) :
            (/\ is_range(t.version)
             /\ t.name \in IndexedNames
             /\ \E r \in log : r.name = t.name /\ r.res = "ok") =>
                /\ IsSome(EntryIn(lockfile, t.name))
                /\ Unwrap(EntryIn(lockfile, t.name)).requested_version = Some(t.version)
                /\ Ok(Unwrap(EntryIn(lockfile, t.name)).version)
                       = resolve_version(ParsedSorted(fetch_list(t.name, upstream[t.name])),
                                         t.version)

\* C4: an install invocation returns success only when every install_tool
\* call it made returned ok or skipped.
C4_FailureIsReported ==
    (args.cmd = "install" /\ pc = "exit" /\ ret = "ok") =>
        \A r \in log : IsOkRes(r.res)

\* the target of the install_tool call on thread t
TargetOf(t) == BinPath(host, thr[t].tool)

\* the install_tool call on thread t has returned a download or checksum failure
FailedEarly(t) ==
    /\ thr[t].pc \in {"done", "exited"}
    /\ thr[t].res \in {"download failed", "checksum mismatch"}

\* C5: an install_tool call that fails on a non-2xx status or on a checksum
\* mismatch has neither created nor written its target path; unless another
\* call created that path, it holds what it held when the call began.
C5_FailedDownloadLeavesTarget ==
    \A t \in DOMAIN thr :
        FailedEarly(t) =>
            /\ <<t, TargetOf(t)>> \notin touched
            /\ (\A u \in DOMAIN thr : <<u, TargetOf(t)>> \notin touched) =>
                   FileAt(files, TargetOf(t)) = thr[t].before

\* an installed binary survives a download whose checksum does not match
C5_Witness ==
    \E t \in DOMAIN thr :
        /\ thr[t].pc = "done"
        /\ thr[t].res = "checksum mismatch"
        /\ thr[t].tool.kind = "Archive"
        /\ IsSome(thr[t].before)
        /\ FileAt(files, TargetOf(t)) = thr[t].before

\* C6: at every point of a run the lock path holds a complete lock file or none.
C6_LockNeverTorn == LockWhole

\* the workers of install_tools_parallel
Workers == DOMAIN thr \ {0}

\* install_tools_parallel has returned to its caller
ParallelReturned == pc \in {"summarize", "report"}

\* C7: when install_tools_parallel has returned, every worker has ended and the
\* result list holds one (name, result) entry per worker: some one-to-one
\* assignment of workers to positions of the list matches every entry.
C7_OneResultPerWorker ==
    ParallelReturned =>
        /\ \A t \in Workers : thr[t].pc = "exited"
        /\ Len(results) = Cardinality(Workers)
        /\ \E f \in [1..Len(results) -> Workers] :
              /\ \A i, j \in 1..Len(results) : f[i] = f[j] => i = j
              /\ \A i \in 1..Len(results) :
                    results[i] = [name |-> thr[f[i]].tool.name, res |-> thr[f[i]].res]

\* the workers finished in the reverse of the order they were spawned in, one
\* having failed and the other not
C7_Witness ==
    /\ ParallelReturned
    /\ Cardinality(Workers) = 2
    /\ results[1] = [name |-> thr[2].tool.name, res |-> thr[2].res]
    /\ results[2] = [name |-> thr[1].tool.name, res |-> thr[1].res]
    /\ thr[1].tool.name # thr[2].tool.name
    /\ IsOkRes(thr[1].res) /\ ~IsOkRes(thr[2].res)

\* C8: the targets of the workers of a parallel install are pairwise distinct,
\* and no two workers are creating or writing the same path at the same time.
C8_WorkersWriteDistinctFiles ==
    \A t, u \in Workers :
        t # u =>
            /\ TargetOf(t) # TargetOf(u)
            /\ ~(/\ thr[t].pc \in {"create", "write"}
                 /\ thr[u].pc \in {"create", "write"}
                 /\ TargetOf(t) = TargetOf(u))

\* C9: each name's index is downloaded at most once in a process, and all the
\* calls of fetch_all_versions for a name that returned a list returned the
\* same list.
C9_IndexFetchedOnce ==
    /\ \A n \in DOMAIN fetches : fetches[n] <= 1
    /\ \A r, q \in log :
          (r.name = q.name /\ r.res.ok /\ q.res.ok) => r.res.val = q.res.val

\* an `install --locked` run
LockedRun == args.cmd = "install" /\ args.locked /\ args.specs = <<>>

\* C10: in an `install --locked` run the lock file stays as the run found it,
\* no version index is fetched or cached, every install_tool call is for a
\* lock entry at the version the entry records, and a run that returns success
\* has installed or skipped every entry.
C10_LockedUsesLockOnly ==
    LockedRun =>
        /\ lockfile = lock0
        /\ cache = EmptyMap
        /\ \A n \in DOMAIN fetches : fetches[n] = 0
        /\ \A r \in log :
              /\ IsSome(EntryIn(lock0, r.name))
              /\ r.version = Unwrap(EntryIn(lock0, r.name)).version
        /\ (pc = "exit" /\ ret = "ok") =>
              \A n \in DOMAIN Unwrap(lock0).tools :
                  \E r \in log : r.name = n /\ IsOkRes(r.res)

\* a locked run that succeeded downloaded a tool at the lock's version while
\* the manifest asks for another, and a tool the manifest does not name
C10_Witness ==
    /\ LockedRun
    /\ pc = "exit"
    /\ ret = "ok"
    /\ \E r \in log :
          /\ r.res = "ok"
          /\ \E t \in Range(Tools) : t.name = r.name /\ t.version # r.version
    /\ \E r \in log : r.res = "ok" /\ \A t \in Range(Tools) : t.name # r.name

\* a bulk `install` run of the manifest
BulkInstall == args.cmd = "install" /\ ~args.locked /\ args.specs = <<>>

\* the run starts on the install directory a successful install of the same
\* manifest leaves behind
SecondInstall ==
    /\ BulkInstall
    /\ Tools # <<>>
    /\ files0 = InstalledFs(host, Tools, EmptyMap)

\* C11: in a bulk install started on what a successful install of the same
\* manifest left behind, every install_tool call returns skipped, having sent
\* no request, and every file of the install directory keeps its digest.
C11_SecondInstallDownloadsNothing ==
    SecondInstall =>
        /\ \A t \in DOMAIN thr : thr[t].pc \in {"done", "exited"} => thr[t].res = "skipped"
        /\ \A r \in log : r.res = "skipped"
        /\ DOMAIN files = DOMAIN files0
        /\ \A path \in DOMAIN files0 :
              Sha256(files[path].bytes) = Sha256(files0[path].bytes)

\* what it means for a version to satisfy one clause of a spec: between the
\* two ends for a hyphen range "A - B", else the semver requirement the clause
\* denotes, a partial "X" or "X.Y" standing for "X.x" or "X.Y.x"
SatisfiesClause(clause, v) ==
    LET Both(ends) ==
            ReqMatches(ParseVersionReq(<<">", "=">> \o Trim(ends[1])
                                       \o <<",", " ", "<", "=">> \o Trim(ends[2])), v)
        Hyphen(ends) ==
            IF IsSome(ends) THEN Both(Unwrap(ends))
            ELSE ReqMatches(ParseVersionReq(NormalizePartial(clause)), v)
    IN  Hyphen(SplitOnce(clause, <<" ", "-", " ">>))

\* a version satisfies a spec when it satisfies one of its "||" clauses
Satisfies(spec, v) ==
    \E i \in 1..Len(Split(spec, <<"|", "|">>)) :
        /\ Trim(Split(spec, <<"|", "|">>)[i]) # <<>>
        /\ SatisfiesClause(Trim(Split(spec, <<"|", "|">>)[i]), v)

\* C12: a resolve_version call on a non-exact spec that got the version list
\* returns the greatest listed version satisfying the spec, and fails with
\* "cannot resolve version spec" exactly when no listed version satisfies it.
C12_ResolveReturnsGreatestMatch ==
    \A r \in log :
        (pc = "resolving" /\ IsSome(r.all)) =>
            LET all == Unwrap(r.all)
                sat == {i \in 1..Len(all) : Satisfies(r.spec, all[i])}
            IN  IF sat = {} THEN r.res = Err("cannot resolve version spec")
                ELSE \E i \in sat :
                        /\ r.res = Ok(VersionToString(all[i]))
                        /\ \A j \in sat : VersionCmp(all[i], all[j]) >= 0

\* C13, as stated: any two resolve_version calls of a process with the same
\* name and spec return the same result.
C13_AnyTwoCallsAgree ==
    \A r, q \in log :
        (pc = "resolving" /\ r.name = q.name /\ r.spec = q.spec) => r.res = q.res

\* C13, amended: once a resolve_version call has returned a version, every
\* later call of the process with the same name and spec returns that version.
C13_LaterCallsAgree ==
    \A r, q \in log :
        (/\ pc = "resolving"
         /\ r.name = q.name
         /\ r.spec = q.spec
         /\ r.call < q.call
         /\ r.res.ok) => q.res = r.res

\* a call on a range spec returned a version from the list it fetched, upstream
\* has published a release that satisfies the spec since, and a later call
\* returned the same version
C13_Witness ==
    \E r, q \in log :
        /\ pc = "resolving"
        /\ r.name = q.name
        /\ r.spec = q.spec
        /\ r.call < q.call
        /\ r.res.ok
        /\ q.res = r.res
        /\ IsSome(r.all)
        /\ Rel(NewRelease, FALSE) \in Range(upstream[r.name])
        /\ ParseVersion(NewRelease) \notin Range(Unwrap(r.all))
        /\ Satisfies(r.spec, ParseVersion(NewRelease))

\* the versions of a cached list are strictly descending
Descending(list) == \A i \in 1..(Len(list) - 1) : VersionCmp(list[i], list[i + 1]) > 0

\* no version occurs twice in a cached list
NoDuplicates(list) == \A i, j \in 1..Len(list) : list[i] = list[j] => i = j

\* C14: every list fetch_all_versions cached is strictly descending in
\* semver order, has no duplicates and holds no version with a pre-release
\* component.
C14_CachedListIsCleanDescending ==
    \A n \in DOMAIN cache :
        /\ Descending(cache[n])
        /\ NoDuplicates(cache[n])
        /\ \A i \in 1..Len(cache[n]) : cache[n][i].pre = <<>>

\* the ordering and duplicate part of C14 alone
C14_OrderOnly ==
    \A n \in DOMAIN cache : Descending(cache[n]) /\ NoDuplicates(cache[n])

\* the names whose entries the lock writer of this run has just built: all of
\* the image for write_lockfile, the tool at hand for write_single_lock
BuiltNames ==
    IF pc # "saving" \/ ~IsSome(saving) THEN {}
    ELSE IF args.specs = <<>> THEN DOMAIN Unwrap(saving).tools
    ELSE {resolved[idx].tool.name}

\* the tools an entry of that name can have been built from
BuiltFrom(n) ==
    IF args.specs = <<>> THEN {t \in Range(Tools) : t.name = n}
    ELSE {resolved[idx].tool}

\* the six keys of {linux,darwin,windows} x {amd64,arm64}
SixKeys ==
    {<<"linux", "-", "amd64">>, <<"linux", "-", "arm64">>,
     <<"darwin", "-", "amd64">>, <<"darwin", "-", "arm64">>,
     <<"windows", "-", "amd64">>, <<"windows", "-", "arm64">>}

\* the sources of entry e are the matrix of template tpl, or absent
MatrixOf(e, tpl) ==
    IF Contains(tpl, <<"{os}">>) /\ Contains(tpl, <<"{arch}">>)
    THEN /\ IsSome(e.sources)
         /\ DOMAIN Unwrap(e.sources) = SixKeys
         /\ \A k \in SixKeys :
               Unwrap(e.sources)[k]
                 = Replace(Replace(Replace(tpl, <<"{version}">>, e.version),
                                   <<"{os}">>, <<k[1]>>), <<"{arch}">>, <<k[3]>>)
    ELSE ~IsSome(e.sources)

\* C15: every entry the lock writer builds has, when the effective template of
\* its tool holds both {os} and {arch}, a sources table of exactly the six
\* platform keys, each the template rendered with the entry's version and that
\* os and arch; otherwise it has no sources table.
C15_SourcesIsFullMatrixOrAbsent ==
    \A n \in BuiltNames :
        \E t \in BuiltFrom(n) :
            MatrixOf(Unwrap(saving).tools[n],
                     effective_source_template(t, placeholder_os(host), placeholder_arch(host)))

\* the writer has built an entry with the full matrix, and an entry without
\* sources for a template that holds {os} but not {arch}
C15_Witness ==
    /\ \E n \in BuiltNames : IsSome(Unwrap(saving).tools[n].sources)
    /\ \E n \in BuiltNames :
          /\ ~IsSome(Unwrap(saving).tools[n].sources)
          /\ Contains(Unwrap(Unwrap(saving).tools[n].source_template), <<"{os}">>)

\* C16: every entry the lock writer builds has the host key {os}-{arch} in
\* canonical names as its platform, and when sources is present the platform is
\* one of its keys and sources[platform] is the entry's source.
C16_PlatformIsCanonicalKey ==
    \A n \in BuiltNames :
        LET Holds(e) ==
                /\ e.platform = Some(<<placeholder_os(host), "-", placeholder_arch(host)>>)
                /\ IsSome(e.sources) =>
                      /\ Unwrap(e.platform) \in DOMAIN Unwrap(e.sources)
                      /\ Unwrap(e.sources)[Unwrap(e.platform)] = e.source
        IN  Holds(Unwrap(saving).tools[n])

\* the fields of LockedEntry
EntryFields ==
    {"version", "requested_version", "source", "source_template", "platform", "sources",
     "sha256", "digest"}

\* the file the run found is a v3 file that says `schema = 3`
FoundV3 == IsV3(Unwrap(lock0)) /\ KeyOf(Unwrap(lock0), "schema") = Some(3)

\* file S has the schema, the names and every entry field of file L
SameLock(L, S) ==
    /\ KeyOf(S, "schema") = KeyOf(L, "schema")
    /\ ~S["tools"].array
    /\ DOMAIN S["tools"].items = DOMAIN L["tools"].items
    /\ \A n \in DOMAIN L["tools"].items :
          \A k \in EntryFields :
              KeyOf(S["tools"].items[n], k) = KeyOf(L["tools"].items[n], k)

\* C17: load followed by save of a v3 lock file succeeds and leaves a file with
\* the same schema, the same names and the same value (or absence) of every
\* field of every entry.
C17_SaveLoadKeepsV3 ==
    (FoundV3 /\ pc = "exit") => (ret = "ok" /\ SameLock(Unwrap(lock0), Unwrap(lockfile)))

\* a v3 file of two entries, one with a sources table and a requested_version,
\* has been loaded and saved, and only its tlk_version changed
C17_Witness ==
    /\ FoundV3
    /\ pc = "exit"
    /\ ret = "ok"
    /\ lockfile # lock0
    /\ Cardinality(DOMAIN Unwrap(lock0)["tools"].items) = 2
    /\ \E n \in DOMAIN Unwrap(lock0)["tools"].items :
          {"sources", "requested_version"} \subseteq DOMAIN Unwrap(lock0)["tools"].items[n]

\* the file the run found is a legacy array-of-tool file
FoundLegacy == ~IsV3(Unwrap(lock0)) /\ IsLegacy(Unwrap(lock0))

\* C18: load of a legacy lock file of N entries yields a schema-3 lock of N
\* entries, each entry of the array under its name with its fields.
C18_LegacyLoadKeepsEveryEntry ==
    (FoundLegacy /\ IsSome(loaded)) =>
        LET Kept(lf, items) ==
                /\ lf.schema = Some(3)
                /\ Cardinality(DOMAIN lf.tools) = Len(items)
                /\ \A i \in 1..Len(items) :
                      /\ items[i]["name"] \in DOMAIN lf.tools
                      /\ \A k \in EntryFields \ {"requested_version"} :
                            KeyOf(LockedEntryToToml(lf.tools[items[i]["name"]]), k)
                              = KeyOf(items[i], k)
        IN  Kept(Unwrap(loaded), Unwrap(lock0)["tools"].items)

\* the same for a legacy file whose entries have pairwise different names
C18_DistinctNamesKept ==
    LET Distinct(items) ==
            \A i, j \in 1..Len(items) : items[i]["name"] = items[j]["name"] => i = j
        Kept(lf, items) ==
            Distinct(items) =>
                /\ Cardinality(DOMAIN lf.tools) = Len(items)
                /\ \A i \in 1..Len(items) :
                      \A k \in EntryFields \ {"requested_version"} :
                          KeyOf(LockedEntryToToml(lf.tools[items[i]["name"]]), k)
                            = KeyOf(items[i], k)
    IN  (FoundLegacy /\ IsSome(loaded)) =>
            Kept(Unwrap(loaded), Unwrap(lock0)["tools"].items)

\* the key of the per-OS tables an OS name stands for
OsKey(os) ==
    CASE os = "linux" -> {"linux"}
      [] os \in {"darwin", "macos"} -> {"mac"}
      [] os = "windows" -> {"windows"}
      [] OTHER -> {}

\* the keys of an ArchSources table an architecture name stands for
ArchKeys(arch) ==
    CASE arch \in {"amd64", "x86_64"} -> {"amd64", "x86_64"}
      [] arch \in {"arm64", "aarch64"} -> {"arm64", "aarch64"}
      [] OTHER -> {}

\* the templates per_os_arch sets for (os, arch)
SetPerOsArch(tool, os, arch) ==
    IF ~IsSome(tool.per_os_arch) THEN {}
    ELSE {Unwrap(Unwrap(Unwrap(tool.per_os_arch)[oa[1]])[oa[2]]) :
            oa \in {x \in OsKey(os) \X ArchKeys(arch) :
                       /\ IsSome(Unwrap(tool.per_os_arch)[x[1]])
                       /\ IsSome(Unwrap(Unwrap(tool.per_os_arch)[x[1]])[x[2]])}}

\* the templates per_os sets for os
SetPerOs(tool, os) ==
    IF ~IsSome(tool.per_os) THEN {}
    ELSE {Unwrap(Unwrap(tool.per_os)[o]) :
            o \in {x \in OsKey(os) : IsSome(Unwrap(tool.per_os)[x])}}

\* C19: a call of effective_source_template(os, arch) returns a template that
\* per_os_arch sets for the OS and architecture (synonyms unified) when there
\* is one; otherwise the template per_os sets for the OS when there is one;
\* otherwise source.
C19_TemplatePrecedence ==
    \A r \in log :
        IF ~("tpl" \in DOMAIN r) THEN TRUE
        ELSE IF SetPerOsArch(Tools[1], r.os, r.arch) # {}
             THEN r.tpl \in SetPerOsArch(Tools[1], r.os, r.arch)
        ELSE IF SetPerOs(Tools[1], r.os) # {}
             THEN r.tpl \in SetPerOs(Tools[1], r.os)
        ELSE r.tpl = Tools[1].source

\* a call for (macos, aarch64) has returned the per_os_arch template set under
\* mac.aarch64 although per_os has a template for mac
C19_Witness ==
    \E r \in log :
        /\ "tpl" \in DOMAIN r
        /\ r.os = "macos"
        /\ r.arch = "arm64"
        /\ r.tpl = <<"mac", "/aarch64">>
        /\ SetPerOs(Tools[1], r.os) = {<<"mac/any">>}

\* the files install_archive can find first among the matching entries of a
\* reply it accepts
FirstMatches(tool) ==
    {Head(install_archive(host, tool, reply).writes) :
        reply \in {r \in Replies(host, tool) : install_archive(host, tool, r).res = "ok"}}

\* an install_tool call that extracted an archive and is the only one to have
\* written its target
ExtractedAlone(t) ==
    /\ thr[t].pc \in {"done", "exited"}
    /\ thr[t].res = "ok"
    /\ thr[t].tool.kind = "Archive"
    /\ \A u \in DOMAIN thr :
          <<u, BinPath(host, thr[t].tool)>> \in touched <=> u = t

\* C20: after install_archive returns ok, the target holds the content of the
\* first archive entry that matches a candidate name.
C20_FirstMatchingEntryPlaced ==
    \A t \in DOMAIN thr :
        ExtractedAlone(t) =>
            FileAt(files, BinPath(host, thr[t].tool)) \in
                {Some(f) : f \in FirstMatches(thr[t].tool)}

\* TlkConfig::load has returned a configuration
ManifestLoaded == pc = "main" /\ IsSome(cfg)

\* C21: every tool of a loaded manifest has a non-empty version and a
\* non-empty source, in whichever form it was declared.
C21_LoadedToolsHaveVersionAndSource ==
    ManifestLoaded =>
        \A i \in 1..Len(Tools) : Tools[i].version # <<>> /\ Tools[i].source # <<>>

\* the part of C21 that concerns the tools declared as tables or array elements
C21_DeclaredToolsOnly ==
    ManifestLoaded =>
        \A i \in 1..Len(parse_unknown(Unwrap(manifest)).val) :
            Tools[i].version # <<>> /\ Tools[i].source # <<>>

\* C22: the tool names of a loaded manifest are non-empty and pairwise
\* distinct.
C22_LoadedNamesDistinct ==
    ManifestLoaded =>
        /\ \A i \in 1..Len(Tools) : Tools[i].name # <<>>
        /\ \A i, j \in 1..Len(Tools) : Tools[i].name = Tools[j].name => i = j

\* a shorthand line never repeats the name of a declared tool
C22_ShorthandYields ==
    ManifestLoaded =>
        \A i, j \in 1..Len(Tools) :
            (i <= Len(parse_unknown(Unwrap(manifest)).val)
             /\ j > Len(parse_unknown(Unwrap(manifest)).val)) =>
                Tools[i].name # Tools[j].name

\* the manifest has a tools entry whose version or source is empty
HasEmptyField(file) ==
    /\ IsSome(file)
    /\ \E i \in 1..Len(Unwrap(file).items) :
          LET Empty(it) ==
                  \/ IsSome(it.version) /\ Unwrap(it.version) = <<>>
                  \/ IsSome(it.source) /\ Trim(Unwrap(it.source)) = <<>>
          IN  Empty(Unwrap(file).items[i])

\* C23: once the load is over, a manifest with an empty version or source has
\* failed with an error, an absent manifest has loaded as the empty tool set,
\* and the two outcomes differ.
C23_EmptyFieldFailsApartFromAbsent ==
    (pc # "load") =>
        /\ HasEmptyField(manifest) => (~IsSome(cfg) /\ ret # "running")
        /\ ~IsSome(manifest) => cfg = Some(<<>>)
        /\ HasEmptyField(manifest) => cfg # TlkConfigLoad(host, None)

\* the tools of a configuration that are not named n
OtherTools(c, n) == SelectSeq(ToolsOf(c), LAMBDA t : t.name # n)

\* the entries of a lock that are not under n
OtherEntries(lock, n) ==
    IF ~IsSome(lock) THEN EmptyMap ELSE RemoveKey(Unwrap(lock).tools, n)

\* C24: after `uninstall NAME` has succeeded, tlk.toml declares no tool NAME in
\* any form, tlk.lock has no entry NAME, the binary install placed for NAME is
\* gone, and the tools and lock entries of every other name are as before.
C24_UninstallRemovesEverywhere ==
    \A i \in 1..Len(results) :
        (args.cmd = "uninstall" /\ pc = "exit" /\ results[i].res = "ok") =>
            LET Clean(n) ==
                    /\ n \notin DOMAIN Unwrap(manifest).top
                    /\ \A k \in 1..Len(Unwrap(manifest).items) :
                          /\ Unwrap(manifest).items[k].name # Some(n)
                          /\ ~(Unwrap(manifest).form = "table"
                               /\ ~IsSome(Unwrap(manifest).items[k].name)
                               /\ Unwrap(manifest).items[k].key = n)
                    /\ ~IsSome(EntryIn(lockfile, n))
                    /\ <<ProjectBinDir, final_binary_name(host, n)>> \notin DOMAIN files
                    /\ OtherTools(TlkConfigLoad(host, manifest), n) = OtherTools(cfg, n)
                    /\ OtherEntries(lockfile, n) = OtherEntries(lock0, n)
            IN  Clean(results[i].name)

\* the same for a name the manifest declares as shorthand or as an element of
\* the legacy array only
C24_ShorthandAndArrayRemoved ==
    \A i \in 1..Len(results) :
        (args.cmd = "uninstall" /\ pc = "exit" /\ results[i].res = "ok"
         /\ Unwrap(manifest).form # "table") =>
            LET Clean(n) ==
                    /\ \A t \in Range(ToolsOf(TlkConfigLoad(host, manifest))) : t.name # n
                    /\ ~IsSome(EntryIn(lockfile, n))
                    /\ <<ProjectBinDir, final_binary_name(host, n)>> \notin DOMAIN files
                    /\ OtherTools(TlkConfigLoad(host, manifest), n) = OtherTools(cfg, n)
                    /\ OtherEntries(lockfile, n) = OtherEntries(lock0, n)
            IN  Clean(results[i].name)

ToolNames(tools) == {tools[i].name : i \in 1..Len(tools)}

\* C25: after migrate-lock has run to its end on an existing lock, the lock's
\* names are the manifest's names, each entry is the one write_lockfile builds
\* for the manifest, and the schema is 3, whatever the old lock held; with no
\* lock file, none is created.
C25_MigrateRebuildsFromManifest ==
    (args.cmd = "migrate-lock" /\ pc = "exit" /\ ret = "ok") =>
        IF ~IsSome(lock0) THEN ~IsSome(lockfile)
        ELSE /\ IsSome(lockfile)
             /\ Unwrap(lockfile).fmt = "v3"
             /\ Unwrap(lockfile).schema = Some(3)
             /\ DOMAIN Unwrap(lockfile).tools = ToolNames(Tools)
             /\ Unwrap(lockfile).tools = LockMapOf(host, files, Tools, EmptyMap)

\* a migration that replaced a lock of another schema number and other names
C25_Witness ==
    /\ args.cmd = "migrate-lock" /\ pc = "exit" /\ ret = "ok"
    /\ IsSome(lock0)
    /\ Unwrap(lock0).schema # Some(3)
    /\ DOMAIN Unwrap(lockfile).tools # {}
    /\ \E i \in 1..Len(Tools) : is_range(Tools[i].version)
    /\ lockfile # lock0

\* with no lock file, migrate-lock ends well and leaves none
C25_NoLockWitness ==
    args.cmd = "migrate-lock" /\ pc = "exit" /\ ret = "ok" /\ ~IsSome(lock0)

\* the lock file without the entries named in gone
WithoutEntries(lock, gone) ==
    Some([Unwrap(lock) EXCEPT !.tools = [n \in DOMAIN Unwrap(lock).tools \ gone |->
                                            Unwrap(lock).tools[n]]])

\* the names a lock holds and the tools do not
LockOnly(lock, tools) == DOMAIN Unwrap(lock).tools \ ToolNames(tools)

\* C26: once verify has run against a lock that loads, every manifest tool the
\* lock lacks is reported as missing from lock and verify has failed; and the
\* outcome, errors included, is the one verify gives for the same lock without
\* any of the entries the manifest does not name.
C26_MissingFailsExtraIgnored ==
    (verified # "none" /\ IsSome(lock0) /\ Unwrap(lock0).fmt = "v3") =>
        LET Errors(lock) ==
                VerifyErrors(host, files0, Tools, Unwrap(LockFileLoad(lock, 1).val))
            Same(lock, gone) ==
                /\ Errors(WithoutEntries(lock, gone)) = Errors(lock)
                /\ verify_lockfile(host, files0, Tools, WithoutEntries(lock, gone), 1).ok
                     = (verified = "ok")
            Holds(lock) ==
                /\ \A i \in 1..Len(Tools) :
                      Tools[i].name \notin DOMAIN Unwrap(lock).tools =>
                          /\ <<i, "missing from lock">> \in Errors(lock)
                          /\ verified = "err"
                /\ \A gone \in SUBSET LockOnly(lock, Tools) : Same(lock, gone)
        IN  Holds(lock0)

\* verify has failed for a manifest tool the lock lacks
C26_Witness ==
    /\ verified = "err" /\ IsSome(lock0)
    /\ \E i \in 1..Len(Tools) : Tools[i].name \notin DOMAIN Unwrap(lock0).tools
    /\ LockOnly(lock0, Tools) # {}

\* verify has passed against a lock with entries the manifest does not name
C26_ExtraWitness ==
    verified = "ok" /\ IsSome(lock0) /\ LockOnly(lock0, Tools) # {}

\* C27: once install has placed the binary of a manifest tool, the binary is at
\* {install_dir}/{final_binary_name(name)} when the tool declares install_dir,
\* and under {project_root}/.tlk/bin when it does not.
C27_BinaryAtDeclaredDir ==
    (args.cmd = "install" /\ ~args.locked /\ args.specs = <<>>) =>
        \A r \in log : \A i \in 1..Len(Tools) :
            LET Placed(t, dir) == <<dir, final_binary_name(host, t.name)>> \in DOMAIN files
                At(t) == IF IsSome(t.install_dir) THEN Placed(t, Unwrap(t.install_dir))
                         ELSE Placed(t, ProjectBinDir)
            IN  (r.res = "ok" /\ r.name = Tools[i].name) => At(Tools[i])

\* the same for the tools that declare no install_dir
C27_DefaultDirUsed ==
    (args.cmd = "install" /\ ~args.locked /\ args.specs = <<>>) =>
        \A r \in log : \A i \in 1..Len(Tools) :
            (r.res = "ok" /\ r.name = Tools[i].name /\ ~IsSome(Tools[i].install_dir)) =>
                <<ProjectBinDir, final_binary_name(host, Tools[i].name)>> \in DOMAIN files

\* a verify that ran on the lock write_lockfile had just written
VerifiedOwnLock == args.cmd = "verify" /\ ~IsSome(lock0) /\ IsSome(lockfile) /\ pc = "exit"

\* C28: verify_lockfile right after write_lockfile, on the same manifest and
\* install directory, reports no error, whatever the form of the version specs,
\* the shape of the known tools and the platform.
C28_VerifyAfterWritePasses ==
    VerifiedOwnLock => verified = "ok"

\* the same for manifests of exact versions, off Windows
C28_ExactOffWindows ==
    (VerifiedOwnLock /\ ~IsWindows(host)
     /\ \A i \in 1..Len(Tools) : IsVersion(Tools[i].version)) => verified = "ok"

\* the same for exact and caret specs of a template-shaped archive tool
C28_CaretAndArchives ==
    (VerifiedOwnLock
     /\ \A i \in 1..Len(Tools) :
           /\ Tools[i].name = <<"terraform">>
           /\ Tools[i].version \in {Ver(1, 7, 5), <<"^">> \o Ver(1, 7, 0)}) => verified = "ok"

\* how many single-entry updates of the lock batch have been saved
UpdatesDone ==
    IF pc = "canonicalize" THEN idx
    ELSE IF pc = "lock_batch" THEN idx - 1
    ELSE Len(resolved)

InLockBatch ==
    /\ args.cmd = "install" /\ args.write_lock /\ ~args.locked /\ args.specs # <<>>
    /\ \/ pc \in {"canonicalize", "lock_batch"}
       \/ pc = "exit" /\ ret = "ok"

\* C29: after the single-entry updates saved so far in one run, the lock holds
\* the entries it held before under every name that was not updated, unchanged,
\* an entry for every updated tool, and nothing else.
C29_SingleUpdateKeepsOthers ==
    InLockBatch =>
        LET Updated(k) == {resolved[i].tool.name : i \in 1..k}
            Before == IF IsSome(lock0) THEN Unwrap(lock0).tools ELSE EmptyMap
            Holds(names, now) ==
                /\ DOMAIN now = DOMAIN Before \cup names
                /\ \A n \in DOMAIN Before \ names : now[n] = Before[n]
                /\ \A i \in 1..UpdatesDone :
                      (\A j \in (i + 1)..UpdatesDone :
                            resolved[j].tool.name # resolved[i].tool.name) =>
                          now[resolved[i].tool.name]
                            = SingleLockEntryOf(host, files, resolved[i].tool)
        IN  IF UpdatesDone = 0 THEN lockfile = lock0
            ELSE IsSome(lockfile) /\ Holds(Updated(UpdatesDone), Unwrap(lockfile).tools)

\* two tools of different names were updated in a lock that held another entry
C29_Witness ==
    /\ InLockBatch /\ pc = "exit"
    /\ Len(resolved) = 2
    /\ resolved[1].tool.name # resolved[2].tool.name
    /\ IsSome(lock0)
    /\ \E n \in DOMAIN Unwrap(lock0).tools :
          /\ \A i \in 1..2 : resolved[i].tool.name # n
          /\ n \in DOMAIN Unwrap(lockfile).tools
    /\ \E n \in DOMAIN Unwrap(lock0).tools : \E i \in 1..2 : resolved[i].tool.name = n

HostKey == <<placeholder_os(host), "-", placeholder_arch(host)>>

\* the URL write_lockfile records on this host for the manifest's tool name
HostUrlOf(name) ==
    LET Url(own) == IF name \in DOMAIN own THEN Some(own[name].source) ELSE None
    IN  Url(Unwrap(LockWrittenOn(host, manifest)).tools)

\* C30: every download of `install --locked` is of the host's URL: the entry's
\* sources["{os}-{arch}"] when the entry has a sources map, and otherwise the
\* URL the tool renders to on this host, never one rendered for another
\* platform.
C30_LockedDownloadsHostUrl ==
    (args.cmd = "install" /\ args.locked /\ IsSome(lock0)) =>
        \A r \in log :
            LET Right(lt) ==
                    IF IsSome(lt.sources) /\ HostKey \in DOMAIN Unwrap(lt.sources)
                    THEN r.url = Unwrap(lt.sources)[HostKey]
                    ELSE Some(r.url) = HostUrlOf(r.name)
            IN  r.name \in DOMAIN Unwrap(lock0).tools => Right(Unwrap(lock0).tools[r.name])

\* the same for the entries with a sources map, off Windows
C30_SourcesMapUsed ==
    (args.cmd = "install" /\ args.locked /\ IsSome(lock0) /\ ~IsWindows(host)) =>
        \A r \in log :
            LET Right(lt) ==
                    (IsSome(lt.sources) /\ HostKey \in DOMAIN Unwrap(lt.sources))
                        => r.url = Unwrap(lt.sources)[HostKey]
            IN  r.name \in DOMAIN Unwrap(lock0).tools => Right(Unwrap(lock0).tools[r.name])

\* the same for every entry of a lock the host wrote itself
C30_OwnLock ==
    (args.cmd = "install" /\ args.locked /\ IsSome(lock0)
     /\ lock0 = LockWrittenOn(host, manifest)) =>
        \A r \in log : Some(r.url) = HostUrlOf(r.name)

====
